---- MODULE Spec2Model ----
(***************************************************************************)
(* agent-hand: the session-state engine.                                   *)
(*                                                                         *)
(* Part I   the Store (src/session/storage.rs): load, save with rolling    *)
(*          backups and temp-rename, executed step by step by several      *)
(*          processes over one profile directory.                          *)
(* Part II  the status-line lock (src/cli/commands.rs, handle_statusline). *)
(* Part III the priority logic (handle_jump, handle_statusline).           *)
(***************************************************************************)
EXTENDS Integers, Sequences, FiniteSets, TLC

(***************************************************************************)
(* Bounds of the model.                                                    *)
(***************************************************************************)
\* saves each process of the concurrent Store runs
MaxOps == 1
\* saves the single writer of the sequential Store runs
MaxSeqOps == 5
\* `statusline` invocations in flight at once
MaxStatuslines == 3
\* sessions of a catalog the `jump` runs start from
MaxSessions == 3
\* sessions of a catalog the `statusline` runs start from
MaxPrioSessions == 2
\* successful switches of one client
MaxJumps == 3
\* write(2) calls write_all needs for one document
DocChunks == 2

\* storage.rs: const MAX_BACKUP_GENERATIONS
MAX_BACKUP_GENERATIONS == 3

None == 0

Procs == {1, 2}

(***************************************************************************)
(* Data model: Instance, GroupData, GroupTree, the catalog.                *)
(***************************************************************************)
Status == {"running", "waiting", "idle", "error", "starting"}

\* struct Instance. tmux_session and ptmx_count are #[serde(skip)].
Instance(id, group_path, status, created_at, lr, lw, ptmx) ==
    [id |-> id, group_path |-> group_path, status |-> status,
     created_at |-> created_at, last_running_at |-> lr,
     last_waiting_at |-> lw, ptmx_count |-> ptmx]

\* The fields serde writes for an Instance.
SerializedFields ==
    {"id", "group_path", "status", "created_at", "last_running_at", "last_waiting_at"}

\* A group path is the sequence of its "/"-separated segments.
\* GroupData::new: name is the last segment.
GroupData(path, expanded, order) ==
    [name |-> path[Len(path)], path |-> path, expanded |-> expanded, order |-> order]

\* String comparison of two paths (segment by segment, a prefix first).
RECURSIVE PathLess(_, _)
PathLess(a, b) ==
    IF a = <<>> THEN b # <<>>
    ELSE IF b = <<>> THEN FALSE
    ELSE IF Head(a) # Head(b) THEN Head(a) < Head(b)
    ELSE PathLess(Tail(a), Tail(b))

\* a.order.cmp(&b.order).then(a.path.cmp(&b.path))
GroupBefore(a, b) ==
    \/ a.order < b.order
    \/ a.order = b.order /\ PathLess(a.path, b.path)

\* GroupTree::all_groups: the values of the map, sorted by (order, path).
\* The tree is the map path -> GroupData.
RECURSIVE SortGroups(_)
SortGroups(S) ==
    IF S = {} THEN <<>>
    ELSE LET m == CHOOSE x \in S : \A y \in S \ {x} : GroupBefore(x, y)
         IN  <<m>> \o SortGroups(S \ {m})

all_groups(tree) == SortGroups({tree[p] : p \in DOMAIN tree})

\* GroupTree::from_groups: insert each group under its path, in order.
RECURSIVE from_groups_into(_, _)
from_groups_into(tree, groups) ==
    IF groups = <<>> THEN tree
    ELSE LET g == Head(groups)
             t == [p \in (DOMAIN tree) \cup {g.path} |->
                     IF p = g.path THEN g ELSE tree[p]]
         IN  from_groups_into(t, Tail(groups))

EmptyTree == [p \in {} |-> 0]

\* (mutant) the map keyed by the group's name instead of its path
RECURSIVE MutFromGroupsByName(_)
MutFromGroupsByName(groups) ==
    IF groups = <<>> THEN EmptyTree
    ELSE LET g == groups[Len(groups)]
             t == MutFromGroupsByName(SubSeq(groups, 1, Len(groups) - 1))
         IN  [p \in (DOMAIN t) \cup {<<g.name>>} |-> IF p = <<g.name>> THEN g ELSE t[p]]

from_groups(groups) == from_groups_into(EmptyTree, groups)

Catalog(insts, tree) == [instances |-> insts, tree |-> tree]

EmptyCatalog == Catalog(<<>>, EmptyTree)

(***************************************************************************)
(* The document: serde_json::to_string_pretty(StorageData) and from_str.    *)
(* A document is the sequence of the chunks write_all hands to write(2).   *)
(***************************************************************************)
SerializeInstance(i) == [f \in SerializedFields |-> i[f]]

DeserializeInstance(d) ==
    Instance(d.id, d.group_path, d.status, d.created_at,
             d.last_running_at, d.last_waiting_at, 0)

Serialize(cat) ==
    <<[part |-> "instances",
       val |-> [k \in 1..Len(cat.instances) |-> SerializeInstance(cat.instances[k])]],
      [part |-> "groups", val |-> all_groups(cat.tree)]>>

\* serde_json::from_str::<StorageData>: an error on anything but one whole document.
ParseOk(content) ==
    /\ Len(content) = DocChunks
    /\ content[1].part = "instances"
    /\ content[2].part = "groups"

Parse(content) ==
    Catalog([k \in 1..Len(content[1].val) |-> DeserializeInstance(content[1].val[k])],
            from_groups(content[2].val))

(***************************************************************************)
(* Part I.  The Store over a file system.                                  *)
(*                                                                         *)
(* File names of one profile directory: sessions.json (JSON), its .tmp     *)
(* sibling (TMP) and the backups .bak (1), .bak.2 (2), .bak.3 (3), ...      *)
(* dir maps a name to its inode (0: no such file), inode maps an inode to  *)
(* its content; an open file keeps its inode whatever happens to the name. *)
(***************************************************************************)
JSON == 0
TMP == -1
MaxBakSlot == MAX_BACKUP_GENERATIONS + 1
Baks == 1..MaxBakSlot
FileNames == {TMP, JSON} \cup Baks
MaxInode == Cardinality(FileNames) + 2 * Cardinality(Procs)
Inodes == 1..MaxInode

VARIABLES
    mode,       \* which catalogs the writers save (the pool of inputs)
    dir,        \* file name -> inode, 0 when the file does not exist
    inode,      \* inode -> content (sequence of chunks)
    pc,         \* per process: position inside Storage::save
    arg,        \* per process: the catalog being saved
    idx,        \* per process: loop variable i of create_backup
    fd,         \* per process: inode open for writing (0: none)
    src,        \* per process: inode open for reading by fs::copy (0: none)
    off,        \* per process: chunks of the document written so far
    res,        \* per process: how the last save ended
    saves,      \* per process: saves it may still start
    pre,        \* per process: the files as they were when its save began
    loaded      \* result of the last Storage::load

storeVars == <<mode, dir, inode, pc, arg, idx, fd, src, off, res, saves, pre, loaded>>

\* Part II: concurrent `statusline` invocations and statusline.lock
VARIABLES
    slPc,        \* per invocation: position inside handle_statusline
    lockHolder,  \* invocation whose open file holds the flock (0: nobody)
    slAcquired,  \* per invocation: try_lock_exclusive succeeded
    slOut,       \* per invocation: what it printed
    slDid        \* per invocation: which of load / mux / save it performed

lockVars == <<slPc, lockHolder, slAcquired, slOut, slDid>>

SlProcs == 1..MaxStatuslines

\* Part III: the priority logic of `jump` and `statusline`
VARIABLES
    instances,   \* sessions of the stored catalog (Vec order)
    mux,         \* session id -> what the multiplexer answers to a probe
    current,     \* session name `display-message -p` reports (<<>>: none)
    jumpOut,     \* outcome of the last `jump`
    jumpLog,     \* the client's sessions: where it began, then every session a `jump` switched it to
    priorityEnv, \* the global environment variable AGENTHAND_PRIORITY_SESSION
    statusOut,   \* outcome of the last `statusline`
    observed,    \* the statuses the last `statusline` derived (catalog order)
    statusCmdOut \* outcome of the last `status`

prioVars == <<instances, mux, current, jumpOut, jumpLog, priorityEnv, statusOut,
              observed, statusCmdOut>>

\* The clock and the multiplexer's sessions
VARIABLES
    clock,       \* the time
    panes        \* session id -> the multiplexer session of that name

envVars == <<clock, panes>>

\* The interactive consumers (the TUI's App, the switcher popup)
VARIABLES
    consumer,                  \* which of them runs
    sessions,                  \* its sessions (App::sessions)
    groups,                    \* its group tree (App::groups)
    cache,                     \* its TmuxManager's SessionCache
    status_by_id,              \* the switcher's statuses
    last_tmux_activity,        \* session id -> activity last seen
    last_tmux_activity_change, \* session id -> when the activity last moved
    last_status_probe,         \* session id -> when the pane was last captured
    last_cache_refresh,        \* when the cache refresh last ran
    last_status_refresh,       \* when the status refresh last ran
    uiOut                      \* what its last operation did

\* the probing state of the consumer
engineVars == <<consumer, cache, status_by_id, last_tmux_activity,
                last_tmux_activity_change, last_status_probe, last_cache_refresh,
                last_status_refresh>>

uiVars == <<engineVars, sessions, groups, uiOut>>

\* The consumers of the catalog
VARIABLES
    view         \* the sessions and the groups the last consumer loaded

\* The detector at work on one captured screen
VARIABLES
    captured,    \* the text handed to the detector, a sequence of lines
    verdict      \* what the detector said of it

detVars == <<captured, verdict>>

\* The key bindings of the dedicated tmux server and the processes installing them
VARIABLES
    bindings,    \* root-table key bindings of the server: key -> action
    records,     \* the server's global environment: AGENTHAND_*_KEY per action
    installer    \* each process inside ensure_server_bindings

bindVars == <<bindings, records, installer>>

\* The TUI's navigation state (App::is_navigating, App::last_navigation_time)
VARIABLES
    is_navigating,        \* a navigation key came and has not settled
    last_navigation_time  \* when the last navigation key came

navVars == <<is_navigating, last_navigation_time>>

\* The processes that share one catalog, each from its load to its save
VARIABLES
    disk,        \* the catalog in sessions.json: instances and tree
    txn,         \* per process: where it is, and the catalog it loaded
    committed    \* the ids whose addition or removal a command has saved

sharedVars == <<disk, txn, committed>>

cmdVars == <<view, detVars, bindVars, navVars, sharedVars>>

otherThanStore == <<lockVars, prioVars, envVars, uiVars, cmdVars>>

otherThanLock == <<storeVars, prioVars, envVars, uiVars, cmdVars>>

otherThanPrio == <<storeVars, lockVars, envVars, uiVars, cmdVars>>

otherThanUi == <<storeVars, lockVars, prioVars, envVars, cmdVars>>

otherThanEnv == <<storeVars, lockVars, uiVars, cmdVars>>

otherThanCmd == <<storeVars, lockVars, prioVars, envVars, uiVars>>

otherThanView == <<otherThanCmd, detVars, bindVars, navVars, sharedVars>>

otherThanDet == <<otherThanCmd, view, bindVars, navVars, sharedVars>>

otherThanBind == <<otherThanCmd, view, detVars, navVars, sharedVars>>

Absent == [exists |-> FALSE, data |-> <<>>]

FileOf(d, ino, n) == IF d[n] = 0 THEN Absent ELSE [exists |-> TRUE, data |-> ino[d[n]]]

Snapshot == [n \in FileNames |-> FileOf(dir, inode, n)]

\* An inode nobody names and nobody holds open is gone.
Referenced(d, f, s) == {d[n] : n \in FileNames} \cup {f[p] : p \in Procs} \cup {s[p] : p \in Procs}

Gc(ino, d, f, s) == [i \in Inodes |-> IF i \in Referenced(d, f, s) THEN ino[i] ELSE <<>>]

FreshInode == CHOOSE i \in Inodes :
    /\ i \notin Referenced(dir, fd, src)
    /\ \A j \in Inodes : j < i => j \in Referenced(dir, fd, src)

\* The catalogs the writers are given.
CatA == Catalog(<<Instance(1, <<>>, "idle", 1, None, None, 0)>>, EmptyTree)
CatB == Catalog(<<Instance(1, <<1>>, "waiting", 1, None, 2, 0),
                  Instance(2, <<>>, "idle", 2, None, None, 0)>>,
                from_groups(<<GroupData(<<1>>, TRUE, 0)>>))

\* The catalogs of the round-trip runs: up to two sessions, up to three groups
\* (two of them with the same name under different parents).
RTInstPool ==
    {Instance(id, IF id = 1 THEN <<>> ELSE <<2, 1>>, st, id, lr, lr, px) :
        id \in 1..2, st \in {"idle", "running"}, lr \in {None, 3}, px \in {0, 2}}

RTInstSeqs ==
    {<<>>} \cup {<<i>> : i \in RTInstPool}
           \cup {<<i, j>> : i \in {x \in RTInstPool : x.id = 2 /\ x.ptmx_count = 2},
                            j \in {x \in RTInstPool : x.id = 1 /\ x.last_waiting_at = None}}

RTGroupPaths == {<<1>>, <<2>>, <<2, 1>>}

RTTrees ==
    UNION {[P -> {<<TRUE, 0>>, <<FALSE, 1>>}] : P \in SUBSET RTGroupPaths}

RTTree(f) == [p \in DOMAIN f |-> GroupData(p, f[p][1], f[p][2])]

RoundTripPool == {Catalog(is, RTTree(f)) : is \in RTInstSeqs, f \in RTTrees}

Pool(m) == IF m = "roundtrip" THEN RoundTripPool ELSE {CatA, CatB}

\* (mutant) an unreadable catalog read as an empty one
MutLoadResets(f) ==
    IF f.exists /\ ParseOk(f.data) THEN [kind |-> "ok", cat |-> Parse(f.data)]
    ELSE [kind |-> "ok", cat |-> EmptyCatalog]

\* Storage::load (storage.rs 200-212).
LoadOfFile(f) ==
    IF ~f.exists THEN [kind |-> "ok", cat |-> EmptyCatalog]
    ELSE IF ParseOk(f.data) THEN [kind |-> "ok", cat |-> Parse(f.data)]
    ELSE [kind |-> "err", cat |-> EmptyCatalog]

LoadResult(d, ino) == LoadOfFile(FileOf(d, ino, JSON))

Load ==
    /\ loaded' = LoadResult(dir, inode)
    /\ UNCHANGED <<otherThanStore, mode, dir, inode, pc, arg, idx, fd, src, off, res, saves, pre>>

\* (mutant) the loop running over 1..=MAX_BACKUP_GENERATIONS
MutFirstRotationInclusive == MAX_BACKUP_GENERATIONS

\* create_backup: the loop `for i in (1..MAX_BACKUP_GENERATIONS).rev()`.
FirstRotation == MAX_BACKUP_GENERATIONS - 1

AfterRotation(i) == IF i - 1 >= 1 THEN "rot_check" ELSE "copy_open"

\* Storage::save entry, and create_backup's `if !self.path.exists() return Ok(())`.
BeginSave(p, c) ==
    /\ pc[p] = "idle"
    /\ saves[p] > 0
    /\ saves' = [saves EXCEPT ![p] = @ - 1]
    /\ arg' = [arg EXCEPT ![p] = c]
    /\ res' = [res EXCEPT ![p] = "none"]
    /\ pre' = [pre EXCEPT ![p] = IF mode = "concurrent" THEN @ ELSE Snapshot]
    /\ idx' = [idx EXCEPT ![p] = FirstRotation]
    /\ pc' = [pc EXCEPT ![p] =
                IF dir[JSON] = 0 THEN "create_tmp"
                ELSE IF FirstRotation >= 1 THEN "rot_check" ELSE "copy_open"]
    /\ UNCHANGED <<otherThanStore, mode, dir, inode, fd, src, off, loaded>>

\* `if from.exists() { if to.exists() { remove_file(to) } ...`
RotCheck(p) ==
    /\ pc[p] = "rot_check"
    /\ LET from == idx[p]
           to == idx[p] + 1
       IN  IF dir[from] # 0
           THEN /\ dir' = [dir EXCEPT ![to] = 0]
                /\ inode' = Gc(inode, dir', fd, src)
                /\ pc' = [pc EXCEPT ![p] = "rot_mv"]
                /\ idx' = idx
           ELSE /\ pc' = [pc EXCEPT ![p] = AfterRotation(idx[p])]
                /\ idx' = [idx EXCEPT ![p] = @ - 1]
                /\ UNCHANGED <<dir, inode>>
    /\ UNCHANGED <<otherThanStore, mode, arg, fd, src, off, res, saves, pre, loaded>>

\* `fs::rename(&from, &to).await?`
RotMove(p) ==
    /\ pc[p] = "rot_mv"
    /\ LET from == idx[p]
           to == idx[p] + 1
       IN  IF dir[from] = 0
           THEN /\ res' = [res EXCEPT ![p] = "err_backup"]
                /\ pc' = [pc EXCEPT ![p] = "idle"]
                /\ UNCHANGED <<dir, inode, idx>>
           ELSE /\ dir' = [dir EXCEPT ![to] = dir[from], ![from] = 0]
                /\ inode' = Gc(inode, dir', fd, src)
                /\ pc' = [pc EXCEPT ![p] = AfterRotation(idx[p])]
                /\ idx' = [idx EXCEPT ![p] = @ - 1]
                /\ res' = res
    /\ UNCHANGED <<otherThanStore, mode, arg, fd, src, off, saves, pre, loaded>>

\* `if bak.exists() { remove_file(bak) }` and fs::copy opening its two files.
CopyOpen(p) ==
    /\ pc[p] = "copy_open"
    /\ IF dir[JSON] = 0
       THEN /\ res' = [res EXCEPT ![p] = "err_backup"]
            /\ pc' = [pc EXCEPT ![p] = "idle"]
            /\ UNCHANGED <<dir, inode, fd, src>>
       ELSE LET d0 == [dir EXCEPT ![1] = 0]
                f0 == [fd EXCEPT ![p] = 0]
                n == CHOOSE i \in Inodes :
                        /\ i \notin Referenced(d0, fd, src)
                        /\ \A j \in Inodes : j < i => j \in Referenced(d0, fd, src)
            IN  /\ dir' = [d0 EXCEPT ![1] = n]
                /\ fd' = [fd EXCEPT ![p] = n]
                /\ src' = [src EXCEPT ![p] = dir[JSON]]
                /\ inode' = [Gc(inode, dir', fd', src') EXCEPT ![n] = <<>>]
                /\ pc' = [pc EXCEPT ![p] = "copy_data"]
                /\ res' = res
    /\ UNCHANGED <<otherThanStore, mode, arg, idx, off, saves, pre, loaded>>

\* fs::copy moving the bytes, then closing both files.
CopyData(p) ==
    /\ pc[p] = "copy_data"
    /\ fd' = [fd EXCEPT ![p] = 0]
    /\ src' = [src EXCEPT ![p] = 0]
    /\ inode' = Gc([inode EXCEPT ![fd[p]] = inode[src[p]]], dir, fd', src')
    /\ pc' = [pc EXCEPT ![p] = "create_tmp"]
    /\ UNCHANGED <<otherThanStore, mode, dir, arg, idx, off, res, saves, pre, loaded>>

\* (mutant) the document written in place: File::create on sessions.json itself
MutCreateInPlace(p) ==
    /\ pc[p] = "create_tmp"
    /\ LET n == IF dir[JSON] # 0 THEN dir[JSON] ELSE FreshInode
       IN  /\ dir' = [dir EXCEPT ![JSON] = n]
           /\ fd' = [fd EXCEPT ![p] = n]
           /\ inode' = [inode EXCEPT ![n] = <<>>]
    /\ off' = [off EXCEPT ![p] = 0]
    /\ pc' = [pc EXCEPT ![p] = "write"]
    /\ UNCHANGED <<otherThanStore, mode, arg, idx, src, res, saves, pre, loaded>>

\* `fs::File::create(&temp_path)`: O_CREAT | O_TRUNC on sessions.tmp.
CreateTmp(p) ==
    /\ pc[p] = "create_tmp"
    /\ LET n == IF dir[TMP] # 0 THEN dir[TMP] ELSE FreshInode
       IN  /\ dir' = [dir EXCEPT ![TMP] = n]
           /\ fd' = [fd EXCEPT ![p] = n]
           /\ inode' = [inode EXCEPT ![n] = <<>>]
    /\ off' = [off EXCEPT ![p] = 0]
    /\ pc' = [pc EXCEPT ![p] = "write"]
    /\ UNCHANGED <<otherThanStore, mode, arg, idx, src, res, saves, pre, loaded>>

Hole == [part |-> "hole", val |-> <<>>]

\* write(2) of `chunk` at chunk offset `at` (0-based) of a file holding `content`.
WriteAt(content, at, chunk) ==
    [k \in 1..(IF Len(content) > at + 1 THEN Len(content) ELSE at + 1) |->
        IF k = at + 1 THEN chunk
        ELSE IF k <= Len(content) THEN content[k]
        ELSE Hole]

\* `file.write_all(json.as_bytes())`, one write(2) at a time; after the last one
\* `file.sync_all()` and `drop(file)`.
Write(p) ==
    /\ pc[p] = "write"
    /\ inode' = [inode EXCEPT ![fd[p]] = WriteAt(@, off[p], Serialize(arg[p])[off[p] + 1])]
    /\ off' = [off EXCEPT ![p] = @ + 1]
    /\ IF off[p] + 1 = DocChunks
       THEN /\ fd' = [fd EXCEPT ![p] = 0]
            /\ pc' = [pc EXCEPT ![p] = "rename"]
       ELSE UNCHANGED <<fd, pc>>
    /\ UNCHANGED <<otherThanStore, mode, dir, arg, idx, src, res, saves, pre, loaded>>

\* `fs::rename(&temp_path, &self.path).await?`
Rename(p) ==
    /\ pc[p] = "rename"
    /\ IF dir[TMP] = 0
       THEN /\ res' = [res EXCEPT ![p] = "err_rename"]
            /\ UNCHANGED <<dir, inode>>
       ELSE /\ dir' = [dir EXCEPT ![JSON] = dir[TMP], ![TMP] = 0]
            /\ inode' = Gc(inode, dir', fd, src)
            /\ res' = [res EXCEPT ![p] = "ok"]
    /\ pc' = [pc EXCEPT ![p] = "idle"]
    /\ UNCHANGED <<otherThanStore, mode, arg, idx, fd, src, off, saves, pre, loaded>>

\* The process is killed in the middle of a save; its open files are closed.
Kill(p) ==
    /\ pc[p] # "idle"
    /\ pc' = [pc EXCEPT ![p] = "idle"]
    /\ res' = [res EXCEPT ![p] =
                 IF pc[p] \in {"create_tmp", "write", "rename"}
                 THEN "killed_write" ELSE "killed_backup"]
    /\ fd' = [fd EXCEPT ![p] = 0]
    /\ src' = [src EXCEPT ![p] = 0]
    /\ inode' = Gc(inode, dir, fd', src')
    /\ UNCHANGED <<otherThanStore, mode, dir, arg, idx, off, saves, pre, loaded>>

\* The parts of the program a run does not exercise stay as constructed.
LockOff ==
    /\ slPc = [p \in SlProcs |-> "off"]
    /\ lockHolder = 0
    /\ slAcquired = [p \in SlProcs |-> FALSE]
    /\ slOut = [p \in SlProcs |-> "none"]
    /\ slDid = [p \in SlProcs |-> {}]

PrioOff ==
    /\ instances = <<>>
    /\ mux = <<>>
    /\ current = <<>>
    /\ jumpOut = [kind |-> "none", target |-> <<>>, from |-> <<>>]
    /\ jumpLog = <<>>
    /\ priorityEnv = <<>>
    /\ statusOut = [kind |-> "none", waiting |-> 0, ready |-> 0, running |-> 0,
                    idle |-> 0, error |-> 0, priority |-> <<>>, from |-> <<>>]
    /\ observed = <<>>
    /\ statusCmdOut = [kind |-> "none", waiting |-> 0, running |-> 0, idle |-> 0,
                       error |-> 0, total |-> 0, seen |-> <<>>]

\* chrono::Utc::now() when the model starts
StartTime == 9

\* No time passes and the multiplexer has no session
EnvOff ==
    /\ clock = StartTime
    /\ panes = <<>>

\* No consumer has loaded the catalog
ViewNone == [by |-> "none", sessions |-> <<>>, groups |-> <<>>, n |-> 0]

\* The detector has been given nothing
DetOff ==
    /\ captured = <<>>
    /\ verdict = <<>>

\* No process installs key bindings
BindOff ==
    /\ bindings = <<>>
    /\ records = <<>>
    /\ installer = <<>>

ViewOff ==
    /\ view = ViewNone

\* No navigation key has come (App::new)
NavOff ==
    /\ is_navigating = FALSE
    /\ last_navigation_time = StartTime

\* No process shares the catalog
SharedOff ==
    /\ disk = <<>>
    /\ txn = <<>>
    /\ committed = <<>>

CmdOff ==
    /\ ViewOff
    /\ DetOff
    /\ BindOff
    /\ NavOff
    /\ SharedOff

\* No interactive consumer runs
UiOff ==
    /\ consumer = "none"
    /\ sessions = <<>>
    /\ groups = <<>>
    /\ cache = [last_update |-> None, data |-> <<>>]
    /\ status_by_id = <<>>
    /\ last_tmux_activity = <<>>
    /\ last_tmux_activity_change = <<>>
    /\ last_status_probe = <<>>
    /\ last_cache_refresh = None
    /\ last_status_refresh = None
    /\ uiOut = [op |-> "none", captured |-> <<>>, absent |-> {}]

InitStoreCommon ==
    /\ LockOff
    /\ PrioOff
    /\ EnvOff
    /\ CmdOff
    /\ UiOff
    /\ pc = [p \in Procs |-> "idle"]
    /\ arg = [p \in Procs |-> EmptyCatalog]
    /\ idx = [p \in Procs |-> 0]
    /\ fd = [p \in Procs |-> 0]
    /\ src = [p \in Procs |-> 0]
    /\ off = [p \in Procs |-> 0]
    /\ res = [p \in Procs |-> "none"]
    /\ pre = [p \in Procs |-> [n \in FileNames |-> Absent]]
    /\ loaded = [kind |-> "none", cat |-> EmptyCatalog]

\* The profile directory after the sequence h of saves, one after the other
\* (the last of h is in sessions.json, the one before in .bak, ...).
DirAfter(h) ==
    [n \in FileNames |->
        IF n # TMP /\ n < Len(h) /\ n < MAX_BACKUP_GENERATIONS + 1 THEN n + 1 ELSE 0]

InodeAfter(h) ==
    [i \in Inodes |-> IF i <= Len(h) THEN Serialize(h[Len(h) - i + 1]) ELSE <<>>]

\* Two processes save the same profile concurrently; the profile is new or has
\* been saved before.
InitStore ==
    /\ mode = "concurrent"
    /\ \E h \in {<<>>, <<CatB, CatA>>} :
          /\ dir = DirAfter(h)
          /\ inode = InodeAfter(h)
    /\ saves = [p \in Procs |-> MaxOps]
    /\ InitStoreCommon

\* One writer, one save after the other.
InitStoreSeq ==
    /\ mode = "sequential"
    /\ dir = DirAfter(<<>>)
    /\ inode = InodeAfter(<<>>)
    /\ saves = [p \in Procs |-> IF p = 1 THEN MaxSeqOps ELSE 0]
    /\ InitStoreCommon

\* One writer saves one catalog of the round-trip pool, once.
InitRoundTrip ==
    /\ mode = "roundtrip"
    /\ \E h \in {<<>>, <<CatB, CatA>>} :
          /\ dir = DirAfter(h)
          /\ inode = InodeAfter(h)
    /\ saves = [p \in Procs |-> IF p = 1 THEN 1 ELSE 0]
    /\ InitStoreCommon

NextStore ==
    \/ \E p \in Procs : \E c \in Pool(mode) : BeginSave(p, c)
    \/ \E p \in Procs : RotCheck(p)
    \/ \E p \in Procs : RotMove(p)
    \/ \E p \in Procs : CopyOpen(p)
    \/ \E p \in Procs : CopyData(p)
    \/ \E p \in Procs : CreateTmp(p)
    \/ \E p \in Procs : Write(p)
    \/ \E p \in Procs : Rename(p)
    \/ Load

NextStoreSeq ==
    \/ NextStore
    \/ \E p \in Procs : Kill(p)

vars == <<storeVars, lockVars, prioVars, envVars, uiVars, cmdVars>>

(***************************************************************************)
(* A command on the catalog: `storage.load().await?`, then the save of the *)
(* catalog it changed (handle_add, handle_remove, the TUI's handlers).     *)
(***************************************************************************)
MaxCommands == 1

\* what sessions.json may hold when a command starts: nothing (no file), a
\* catalog, or something that is not one whole document (an empty file, a
\* document cut short, chunks in the wrong order)
InitialFiles ==
    { [exists |-> FALSE, data |-> <<>>],
      [exists |-> TRUE, data |-> Serialize(CatA)],
      [exists |-> TRUE, data |-> <<>>],
      [exists |-> TRUE, data |-> <<Serialize(CatB)[1]>>],
      [exists |-> TRUE, data |-> <<Serialize(CatA)[2], Serialize(CatA)[1]>>] }

\* a command of process p: the load, and only after a successful load the
\* start of the save
Command(p) ==
    /\ pc[p] = "idle"
    /\ saves[p] > 0
    /\ saves' = [saves EXCEPT ![p] = @ - 1]
    /\ LET r == LoadResult(dir, inode)
       IN  /\ loaded' = r
           /\ IF r.kind = "err"
              THEN /\ res' = [res EXCEPT ![p] = "load_err"]
                   /\ UNCHANGED <<arg, pre, idx, pc>>
              ELSE \E c \in Pool(mode) :
                      /\ arg' = [arg EXCEPT ![p] = c]
                      /\ res' = [res EXCEPT ![p] = "none"]
                      /\ pre' = [pre EXCEPT ![p] = Snapshot]
                      /\ idx' = [idx EXCEPT ![p] = FirstRotation]
                      /\ pc' = [pc EXCEPT ![p] =
                                  IF dir[JSON] = 0 THEN "create_tmp"
                                  ELSE IF FirstRotation >= 1 THEN "rot_check"
                                  ELSE "copy_open"]
    /\ UNCHANGED <<otherThanStore, mode, dir, inode, fd, src, off>>

\* Two processes run commands on a profile whose sessions.json is missing,
\* whole, or not a document.
InitCommand ==
    /\ mode = "command"
    /\ \E f \in InitialFiles :
          /\ dir = [n \in FileNames |-> IF n = JSON /\ f.exists THEN 1 ELSE 0]
          /\ inode = [i \in Inodes |-> IF i = 1 THEN f.data ELSE <<>>]
    /\ saves = [p \in Procs |-> MaxCommands]
    /\ InitStoreCommon

NextCommand ==
    \/ \E p \in Procs : Command(p)
    \/ \E p \in Procs : RotCheck(p)
    \/ \E p \in Procs : RotMove(p)
    \/ \E p \in Procs : CopyOpen(p)
    \/ \E p \in Procs : CopyData(p)
    \/ \E p \in Procs : CreateTmp(p)
    \/ \E p \in Procs : Write(p)
    \/ \E p \in Procs : Rename(p)

SpecCommand == InitCommand /\ [][NextCommand]_vars

Spec == InitStore /\ [][NextStore]_vars

SpecStoreSeq == InitStoreSeq /\ [][NextStoreSeq]_vars

SpecRoundTrip == InitRoundTrip /\ [][NextStore]_vars

(***************************************************************************)
(* Part II. handle_statusline, the steps of one invocation up to the save. *)
(***************************************************************************)
StoreOff ==
    /\ mode = "off"
    /\ dir = DirAfter(<<>>)
    /\ inode = InodeAfter(<<>>)
    /\ saves = [p \in Procs |-> 0]
    /\ pc = [p \in Procs |-> "idle"]
    /\ arg = [p \in Procs |-> EmptyCatalog]
    /\ idx = [p \in Procs |-> 0]
    /\ fd = [p \in Procs |-> 0]
    /\ src = [p \in Procs |-> 0]
    /\ off = [p \in Procs |-> 0]
    /\ res = [p \in Procs |-> "none"]
    /\ pre = [p \in Procs |-> [n \in FileNames |-> Absent]]
    /\ loaded = [kind |-> "none", cat |-> EmptyCatalog]

\* The section the lock is meant to guard: load, refresh_cache, probe, save.
Section == {"load", "refresh", "probe", "save"}

SlGoto(p, to) == slPc' = [slPc EXCEPT ![p] = to]

SlPrint(p, what) == slOut' = [slOut EXCEPT ![p] = what]

SlDo(p, what) == slDid' = [slDid EXCEPT ![p] = @ \cup {what}]

\* get_agent_hand_dir() and OpenOptions::open: both `if let Ok`, so a failure
\* skips the lock and the invocation goes on.
SlOpenLock(p) ==
    /\ slPc[p] = "start"
    /\ \E opened \in BOOLEAN : SlGoto(p, IF opened THEN "try_lock" ELSE "load")
    /\ UNCHANGED <<otherThanLock, lockHolder, slAcquired, slOut, slDid>>

\* f.try_lock_exclusive(): flock(LOCK_EX | LOCK_NB). Held by another open file:
\* print "AH" and return Ok.
SlTryLock(p) ==
    /\ slPc[p] = "try_lock"
    /\ IF lockHolder # 0
       THEN /\ SlPrint(p, "AH")
            /\ SlGoto(p, "done")
            /\ UNCHANGED <<lockHolder, slAcquired>>
       ELSE /\ lockHolder' = p
            /\ slAcquired' = [slAcquired EXCEPT ![p] = TRUE]
            /\ SlGoto(p, "locked")
            /\ UNCHANGED slOut
    /\ UNCHANGED <<otherThanLock, slDid>>

\* `let _statusline_lock = f;` is a binding of the inner `if let` block: the
\* File is dropped, and the flock released, at the closing brace.
SlDropLock(p) ==
    /\ slPc[p] = "locked"
    /\ lockHolder' = IF lockHolder = p THEN 0 ELSE lockHolder
    /\ SlGoto(p, "load")
    /\ UNCHANGED <<otherThanLock, slAcquired, slOut, slDid>>

\* Storage::new(profile)? and storage.load()?; an empty catalog prints "AH".
SlLoad(p) ==
    /\ slPc[p] = "load"
    /\ SlDo(p, "load")
    /\ \E r \in {"err", "empty", "sessions"} :
          CASE r = "err"      -> SlPrint(p, "err") /\ SlGoto(p, "done")
            [] r = "empty"    -> SlPrint(p, "AH") /\ SlGoto(p, "done")
            [] r = "sessions" -> SlGoto(p, "refresh") /\ UNCHANGED slOut
    /\ UNCHANGED <<otherThanLock, lockHolder, slAcquired>>

\* manager.refresh_cache()?: `tmux list-sessions`
SlRefresh(p) ==
    /\ slPc[p] = "refresh"
    /\ SlDo(p, "mux")
    /\ \E ok \in BOOLEAN :
          IF ok THEN SlGoto(p, "probe") /\ UNCHANGED slOut
                ELSE SlPrint(p, "err") /\ SlGoto(p, "done")
    /\ UNCHANGED <<otherThanLock, lockHolder, slAcquired>>

\* the probe loop; `dirty` says whether a timestamp was stamped
SlProbe(p) ==
    /\ slPc[p] = "probe"
    /\ \E dirty \in BOOLEAN : SlGoto(p, IF dirty THEN "save" ELSE "publish")
    /\ UNCHANGED <<otherThanLock, lockHolder, slAcquired, slOut, slDid>>

\* `if dirty { storage.save(&instances, &tree).await?; }`
SlSave(p) ==
    /\ slPc[p] = "save"
    /\ SlDo(p, "save")
    /\ \E ok \in BOOLEAN :
          IF ok THEN SlGoto(p, "publish") /\ UNCHANGED slOut
                ELSE SlPrint(p, "err") /\ SlGoto(p, "done")
    /\ UNCHANGED <<otherThanLock, lockHolder, slAcquired>>

\* set_environment_global and println!("{line}"); then the process returns.
SlPublish(p) ==
    /\ slPc[p] = "publish"
    /\ SlPrint(p, "line")
    /\ SlGoto(p, "done")
    /\ UNCHANGED <<otherThanLock, lockHolder, slAcquired, slDid>>

InitLock ==
    /\ StoreOff
    /\ PrioOff
    /\ EnvOff
    /\ CmdOff
    /\ UiOff
    /\ slPc = [p \in SlProcs |-> "start"]
    /\ lockHolder = 0
    /\ slAcquired = [p \in SlProcs |-> FALSE]
    /\ slOut = [p \in SlProcs |-> "none"]
    /\ slDid = [p \in SlProcs |-> {}]

NextLock ==
    \/ \E p \in SlProcs : SlOpenLock(p)
    \/ \E p \in SlProcs : SlTryLock(p)
    \/ \E p \in SlProcs : SlDropLock(p)
    \/ \E p \in SlProcs : SlLoad(p)
    \/ \E p \in SlProcs : SlRefresh(p)
    \/ \E p \in SlProcs : SlProbe(p)
    \/ \E p \in SlProcs : SlSave(p)
    \/ \E p \in SlProcs : SlPublish(p)

SpecLock == InitLock /\ [][NextLock]_vars

(***************************************************************************)
(* Part III. The priority logic: handle_jump and handle_statusline as      *)
(* whole handlers over a stored catalog and a multiplexer.                 *)
(***************************************************************************)
\* tmux/mod.rs SESSION_PREFIX, "agentdeck_rs_", as one symbol of a name
SESSION_PREFIX == <<0>>

\* TmuxManager::session_name: format!("{}{}", SESSION_PREFIX, id)
session_name(id) == SESSION_PREFIX \o id

\* Instance::tmux_name
tmux_name(inst) == session_name(inst.id)

\* `a.tmux_name().cmp(&b.tmux_name())` is Less: String order
NameLess(a, b) == PathLess(a, b)

\* chrono::Utc::now() of the handler
Now == clock

\* cfg.ready_ttl_minutes() * 60, in the model's unit of time
ReadyTtlSecs == 3

\* the 30 seconds after which a Running session's last_running_at is re-stamped
TouchSecs == 1

\* What the multiplexer answers when a session is probed: the session is not
\* in the refreshed cache, capture-pane fails, the pane shows a prompt, or not.
Probes == {"missing", "fail", "prompt", "quiet"}

\* (mutant) an update_status that also moves the session to the root group
MutUpdateStatusRegroups(inst, probe) ==
    [inst EXCEPT !.status = IF probe = "prompt" THEN "waiting" ELSE "idle",
                 !.group_path = <<>>, !.created_at = Now]

\* Instance::update_status over a TmuxSession made by init_tmux just before
\* (last_activity is None, so the activity comparison yields Idle); the
\* handlers drop its Result, so a failed capture leaves the status as loaded.
update_status(inst, probe) ==
    CASE probe = "missing" -> [inst EXCEPT !.status = "error"]
      [] probe = "fail"    -> inst
      [] probe = "prompt"  -> [inst EXCEPT !.status = "waiting"]
      [] probe = "quiet"   -> [inst EXCEPT !.status = "idle"]

\* handle_jump's loop `for inst in &mut instances { init_tmux; update_status }`
ProbeAll(insts, m) == [i \in DOMAIN insts |-> update_status(insts[i], m[insts[i].id])]

\* the closure is_ready
is_ready(inst) ==
    inst.last_running_at # None /\ Now - inst.last_running_at < ReadyTtlSecs

\* (mutant) the Waiting sessions ranked by creation time only
MutKeyCreatedAt(s) == s.created_at

\* `s.last_waiting_at.unwrap_or(s.created_at)`
WaitingKey(s) == IF s.last_waiting_at # None THEN s.last_waiting_at ELSE s.created_at

\* `s.last_running_at.unwrap_or(s.created_at)`
RunningKey(s) == IF s.last_running_at # None THEN s.last_running_at ELSE s.created_at

\* Iterator::max_by_key, keys[i] being the key of seq[i]: the last element
\* whose key is maximal; None (<<>>) on an empty iterator, Some(x) is <<x>>.
MaxByKey(seq, keys) ==
    IF seq = <<>> THEN <<>>
    ELSE LET best == {i \in DOMAIN seq : \A j \in DOMAIN seq : keys[j] <= keys[i]}
             last == CHOOSE i \in best : \A j \in best : j <= i
         IN  <<seq[last]>>

\* (mutant) the Ready sessions left in catalog order
MutUnsorted(seq) == seq

\* `ready_sessions.sort_by(|a, b| a.tmux_name().cmp(&b.tmux_name()))`: a
\* stable sort, here by insertion.
RECURSIVE SortByName(_)
SortByName(seq) ==
    IF seq = <<>> THEN <<>>
    ELSE LET rest == SortByName(SubSeq(seq, 1, Len(seq) - 1))
             x == seq[Len(seq)]
             k == Cardinality({i \in DOMAIN rest : ~NameLess(tmux_name(x), tmux_name(rest[i]))})
         IN  SubSeq(rest, 1, k) \o <<x>> \o SubSeq(rest, k + 1, Len(rest))

\* (mutant) no candidate is held back for being the current session
MutAnyCandidate(s, current_session) == TRUE

\* `s.tmux_name() != current_session`
NotCurrent(s, current_session) == tmux_name(s) # current_session

\* `ready_sessions.iter().position(|s| s.tmux_name() == current_session)`,
\* 0 for None, else the index counted from 1
Position(ready_sessions, current_session) ==
    LET hits == {i \in DOMAIN ready_sessions : tmux_name(ready_sessions[i]) = current_session}
    IN  IF hits = {} THEN 0 ELSE CHOOSE i \in hits : \A j \in hits : i <= j

\* handle_jump, Priority 1
waiting_target(insts, current_session) ==
    LET IsCandidate(s) == s.status = "waiting" /\ NotCurrent(s, current_session)
        candidates == SelectSeq(insts, IsCandidate)
    IN  MaxByKey(candidates, [i \in DOMAIN candidates |-> WaitingKey(candidates[i])])

\* handle_jump, Priority 2 (evaluated when waiting_target is None)
ready_target(insts, current_session) ==
    LET IsReady(s) == s.status = "idle" /\ is_ready(s)
        ready_sessions == SortByName(SelectSeq(insts, IsReady))
        pos == Position(ready_sessions, current_session)
    IN  IF ready_sessions = <<>> THEN <<>>
        ELSE IF Len(ready_sessions) = 1
             THEN IF NotCurrent(ready_sessions[1], current_session)
                  THEN <<ready_sessions[1]>> ELSE <<>>
        ELSE IF pos # 0
             THEN <<ready_sessions[(pos % Len(ready_sessions)) + 1]>>
        ELSE <<ready_sessions[1]>>

\* `let target = waiting_target.or(ready_target);`
JumpTarget(insts, current_session) ==
    IF waiting_target(insts, current_session) # <<>>
    THEN waiting_target(insts, current_session)
    ELSE ready_target(insts, current_session)


\* Session ids ("1" < "12" < "2" as strings).
IdPool == {<<1>>, <<1, 2>>, <<2>>}

\* What a stored session and its multiplexer session can look like:
\* <<stored status, probe answer, last_waiting_at, last_running_at>>.
SessionStates ==
    { <<"idle", "prompt", None, None>>,       \* turns Waiting, never stamped
      <<"waiting", "prompt", 5, None>>,       \* Waiting since 5
      <<"waiting", "fail", 2, None>>,         \* Waiting since 2, probe fails
      <<"idle", "quiet", None, 8>>,           \* Ready
      <<"idle", "quiet", None, 7>>,           \* Ready, ran earlier
      <<"idle", "quiet", None, 4>>,           \* ran too long ago
      <<"idle", "quiet", None, None>>,        \* never ran
      <<"idle", "missing", None, 8>>,         \* its multiplexer session is gone
      <<"running", "fail", None, 8>>,         \* stored Running, probe fails
      <<"waiting", "quiet", 5, 8>> }          \* was Waiting, now Ready

\* A catalog of n sessions, created one after the other, with the
\* multiplexer's answers and the client's session.
InitPrio(maxN) ==
    \E n \in 0..maxN :
    \E ids \in [1..n -> IdPool] :
    \E st \in [1..n -> SessionStates] :
        /\ \A j, k \in 1..n : ids[j] = ids[k] => j = k
        /\ \A k \in 1..n : st[k][3] # None => st[k][3] >= k
        /\ instances = [k \in 1..n |->
                           Instance(ids[k], <<>>, st[k][1], k, st[k][4], st[k][3], 0)]
        /\ mux = [i \in {ids[k] : k \in 1..n} |->
                     st[CHOOSE k \in 1..n : ids[k] = i][2]]
        /\ current \in {<<>>} \cup {session_name(ids[k]) : k \in 1..n}
        /\ jumpOut = [kind |-> "none", target |-> <<>>, from |-> <<>>]
        /\ jumpLog = <<current>>
        /\ priorityEnv = <<>>
        /\ statusOut = [kind |-> "none", waiting |-> 0, ready |-> 0, running |-> 0,
                        idle |-> 0, error |-> 0, priority |-> <<>>, from |-> <<>>]
        /\ observed = <<>>
        /\ statusCmdOut = [kind |-> "none", waiting |-> 0, running |-> 0, idle |-> 0,
                           error |-> 0, total |-> 0, seen |-> <<>>]

\* handle_jump. `loaded` is the outcome of Storage::new / load / refresh_cache
\* (each `?`), `switched` that of `tmux switch-client`.
Jump ==
    /\ Len(jumpLog) <= MaxJumps
    /\ \E ok \in BOOLEAN : \E switched \in BOOLEAN :
          LET target == JumpTarget(ProbeAll(instances, mux), current)
              out == IF ~ok THEN [kind |-> "err", target |-> <<>>, from |-> current]
                     ELSE IF instances = <<>>
                          THEN [kind |-> "no_sessions", target |-> <<>>, from |-> current]
                     ELSE IF target = <<>>
                          THEN [kind |-> "no_target", target |-> <<>>, from |-> current]
                     ELSE [kind |-> IF switched THEN "switched" ELSE "switch_failed",
                           target |-> tmux_name(target[1]), from |-> current]
          IN  /\ jumpOut' = out
              /\ current' = IF out.kind = "switched" THEN out.target ELSE current
              /\ jumpLog' = IF out.kind = "switched" THEN Append(jumpLog, out.target)
                            ELSE jumpLog
    /\ UNCHANGED <<otherThanPrio, instances, mux, priorityEnv, statusOut, observed, statusCmdOut>>

InitJump ==
    /\ StoreOff
    /\ LockOff
    /\ EnvOff
    /\ CmdOff
    /\ UiOff
    /\ InitPrio(MaxSessions)

NextJump == Jump

SpecJump == InitJump /\ [][NextJump]_vars

\* handle_statusline's probe loop body: update_status, then the two stamps.
Stamp(inst, probe) ==
    LET s == update_status(inst, probe)
        w == IF s.status = "waiting" /\ inst.status # "waiting"
             THEN [s EXCEPT !.last_waiting_at = Now] ELSE s
    IN  IF w.status = "running"
           /\ (w.last_running_at = None \/ Now - w.last_running_at >= TouchSecs)
        THEN [w EXCEPT !.last_running_at = Now] ELSE w

StampAll(insts, m) == [i \in DOMAIN insts |-> Stamp(insts[i], m[insts[i].id])]

\* `dirty`: some stamp was set
Dirty(insts, m) ==
    \E i \in DOMAIN insts :
        LET s == update_status(insts[i], m[insts[i].id])
        IN  \/ s.status = "waiting" /\ insts[i].status # "waiting"
            \/ /\ s.status = "running"
               /\ (s.last_running_at = None \/ Now - s.last_running_at >= TouchSecs)

\* (mutant) the Ready test made before the status is looked at
MutCounterReadyFirst(s) ==
    IF is_ready(s) /\ s.status # "running" THEN "ready"
    ELSE IF s.status = "starting" THEN "idle" ELSE s.status

\* the counter a session adds to: `match inst.status` of the counting loop
Counter(s) ==
    CASE s.status = "waiting"  -> "waiting"
      [] s.status = "running"  -> "running"
      [] s.status = "idle"     -> IF is_ready(s) THEN "ready" ELSE "idle"
      [] s.status = "error"    -> "error"
      [] s.status = "starting" -> "idle"

\* the counting loop of handle_statusline
Count(insts, counter) == Cardinality({i \in DOMAIN insts : Counter(insts[i]) = counter})

\* handle_statusline's choice of `priority_tmux`; "" is <<>>
PriorityTmux(insts) ==
    LET IsWaiting(s) == s.status = "waiting"
        IsReady(s) == s.status = "idle" /\ is_ready(s)
        waiting == SelectSeq(insts, IsWaiting)
        ready == SelectSeq(insts, IsReady)
        t == IF Count(insts, "waiting") > 0
             THEN MaxByKey(waiting, [i \in DOMAIN waiting |-> WaitingKey(waiting[i])])
             ELSE MaxByKey(ready, [i \in DOMAIN ready |-> RunningKey(ready[i])])
    IN  IF t = <<>> THEN <<>> ELSE tmux_name(t[1])

\* handle_statusline after the lock block. `ok` is the outcome of Storage::new
\* / load / refresh_cache, `saved` that of storage.save, `published` that of
\* set_environment_global (its Result is dropped).
Statusline ==
    /\ \E ok \in BOOLEAN : \E saved \in BOOLEAN : \E published \in BOOLEAN :
        LET probed == StampAll(instances, mux)
            dirty == Dirty(instances, mux)
            quiet == [kind |-> "AH", waiting |-> 0, ready |-> 0, running |-> 0,
                      idle |-> 0, error |-> 0, priority |-> <<>>, from |-> current]
        IN  IF ~ok
            THEN /\ statusOut' = [quiet EXCEPT !.kind = "err"]
                 /\ UNCHANGED <<instances, priorityEnv, observed>>
            ELSE IF instances = <<>>
            THEN /\ statusOut' = quiet
                 /\ UNCHANGED <<instances, priorityEnv, observed>>
            ELSE IF dirty /\ ~saved
            THEN /\ statusOut' = [quiet EXCEPT !.kind = "err"]
                 /\ UNCHANGED <<instances, priorityEnv, observed>>
            ELSE /\ instances' = IF dirty THEN probed ELSE instances
                 /\ priorityEnv' = IF published THEN PriorityTmux(probed) ELSE priorityEnv
                 /\ statusOut' = [kind |-> "line",
                                  waiting |-> Count(probed, "waiting"),
                                  ready |-> Count(probed, "ready"),
                                  running |-> Count(probed, "running"),
                                  idle |-> Count(probed, "idle"),
                                  error |-> Count(probed, "error"),
                                  priority |-> PriorityTmux(probed),
                                  from |-> current]
                 /\ observed' = [i \in DOMAIN probed |-> probed[i].status]
    /\ UNCHANGED <<otherThanPrio, mux, current, jumpOut, jumpLog, statusCmdOut>>

InitPriority ==
    /\ StoreOff
    /\ LockOff
    /\ EnvOff
    /\ CmdOff
    /\ UiOff
    /\ InitPrio(MaxPrioSessions)

NextPriority ==
    \/ Statusline
    \/ Jump

SpecPriority == InitPriority /\ [][NextPriority]_vars

\* the StatusCounts field a session adds to: `match inst.status` of
\* handle_status
StatusCounter(s) ==
    CASE s.status = "running"  -> "running"
      [] s.status = "waiting"  -> "waiting"
      [] s.status = "idle"     -> "idle"
      [] s.status = "error"    -> "error"
      [] s.status = "starting" -> "idle"

\* the counting loop of handle_status
StatusCount(insts, counter) ==
    Cardinality({i \in DOMAIN insts : StatusCounter(insts[i]) = counter})

\* handle_status. `ok` is the outcome of Storage::new / load, `refreshed` that
\* of refresh_cache; nothing is stamped and nothing is saved.
StatusCmd ==
    /\ \E ok \in BOOLEAN : \E refreshed \in BOOLEAN :
        LET probed == ProbeAll(instances, mux)
            zeros == [kind |-> "empty", waiting |-> 0, running |-> 0, idle |-> 0,
                      error |-> 0, total |-> 0, seen |-> <<>>]
        IN  IF ~ok
            THEN statusCmdOut' = [zeros EXCEPT !.kind = "err"]
            ELSE IF instances = <<>>
            THEN statusCmdOut' = zeros
            ELSE IF ~refreshed
            THEN statusCmdOut' = [zeros EXCEPT !.kind = "err"]
            ELSE statusCmdOut' = [kind |-> "counts",
                                  waiting |-> StatusCount(probed, "waiting"),
                                  running |-> StatusCount(probed, "running"),
                                  idle |-> StatusCount(probed, "idle"),
                                  error |-> StatusCount(probed, "error"),
                                  total |-> Len(probed),
                                  seen |-> probed]
    /\ UNCHANGED <<otherThanPrio, instances, mux, current, jumpOut, jumpLog,
                   priorityEnv, statusOut, observed>>

InitCounters ==
    /\ StoreOff
    /\ LockOff
    /\ EnvOff
    /\ CmdOff
    /\ UiOff
    /\ InitPrio(MaxPrioSessions)

NextCounters ==
    \/ Statusline
    \/ StatusCmd

SpecCounters == InitCounters /\ [][NextCounters]_vars

(***************************************************************************)
(* Part IV. The state engine of the interactive consumers: the TUI's       *)
(* App::tick / refresh_statuses and the switcher's loop, over the          *)
(* multiplexer's sessions and the SessionCache.  Times are in seconds.     *)
(***************************************************************************)
MaxTicks == 4

MaxUiSessions == 1

STATUS_REFRESH == 1

CACHE_REFRESH == 2

STATUS_COOLDOWN == 2

\* STATUS_FALLBACK is 60 s; the model keeps it above the cooldown
STATUS_FALLBACK == 3

\* SessionCache::new: ttl
CACHE_TTL == 2

\* the switcher refreshes the cache when a second has passed
SWITCHER_CACHE_REFRESH == 1

\* the switcher's settle / re-probe period
SWITCHER_PROBE == 2

\* PromptDetector::is_busy: busy_indicators (one of them)
busy_indicators == {"esc to interrupt"}

\* PromptDetector::has_prompt: blocking_prompts (one of them)
blocking_prompts == {"continue?"}

\* DETECTION_CONFIG: the user's busy_contains and prompt_contains
busy_contains == {"building project"}

prompt_contains == {"press any key"}

\* A screen is the set of the phrases its last lines contain.
\* PromptDetector::is_busy
is_busy(content) == content \cap (busy_indicators \cup busy_contains) # {}

\* PromptDetector::has_prompt
has_prompt(content) == content \cap (blocking_prompts \cup prompt_contains) # {}

\* What a pane can show; the empty screen is also what a failed capture gives
\* (`unwrap_or_default`).
Screens ==
    { {},
      {"esc to interrupt"},
      {"continue?"},
      {"esc to interrupt", "continue?"},
      {"esc to interrupt", "press any key"},
      {"building project", "continue?"} }

\* a SessionCache whose TTL is not looked at
MutValidForEver(c, now) == c.last_update # None

\* SessionCache::is_valid
is_valid(c, now) == c.last_update # None /\ now - c.last_update < CACHE_TTL

\* SessionCache::exists (TmuxManager::session_exists): None is <<>>
cache_exists(c, name, now) ==
    IF ~is_valid(c, now) THEN <<>> ELSE <<name \in DOMAIN c.data>>

\* SessionCache::activity (TmuxManager::session_activity)
cache_activity(c, name, now) ==
    IF ~is_valid(c, now) THEN <<>>
    ELSE IF name \in DOMAIN c.data THEN <<c.data[name]>> ELSE <<>>

\* TmuxManager::refresh_cache: `tmux` cannot be spawned (Err, cache as it was),
\* `list-sessions` fails (cache cleared), or the sessions listed are cached.
refresh_cache(c, outcome, now) ==
    CASE outcome = "spawn_err" -> c
      [] outcome = "no_server" -> [last_update |-> None, data |-> <<>>]
      [] outcome = "ok"        ->
            [last_update |-> now,
             data |-> [i \in {j \in DOMAIN panes : panes[j].alive} |-> panes[i].activity]]

\* what `tmux list-sessions` can do: without a session of the catalog alive
\* there may be no server
RefreshOutcomes ==
    {"spawn_err", "ok"} \cup
        (IF \E i \in DOMAIN panes : panes[i].alive THEN {} ELSE {"no_server"})

\* capture_pane(..).await.unwrap_or_default()
Captured(id, failed) ==
    IF id \in failed \/ ~panes[id].alive THEN {} ELSE panes[id].screen

\* (mutant) a loop body without the fallback probe
MutNoFallbackProbe(s, c, act, chg, prb, now, content) ==
    LET ex == cache_exists(c, s.id, now)
        av == cache_activity(c, s.id, now)
        activity == IF av = <<>> THEN 0 ELSE av[1]
        keep == [status |-> s.status, act |-> act, chg |-> chg, prb |-> prb,
                 captured |-> FALSE]
    IN  IF ex = <<>> \/ ~ex[1]
        THEN [keep EXCEPT !.status = "idle", !.act = <<>>, !.chg = <<>>, !.prb = <<>>]
        ELSE IF act = <<>> \/ activity > act[1]
        THEN [keep EXCEPT !.act = <<activity>>, !.chg = <<now>>, !.status = "running"]
        ELSE IF ~(chg # <<>> /\ now - chg[1] >= STATUS_COOLDOWN /\ s.status = "running")
        THEN keep
        ELSE [keep EXCEPT !.status = IF has_prompt(content) THEN "waiting" ELSE "idle",
                          !.prb = <<now>>, !.captured = TRUE]

\* the body of refresh_statuses' loop for session s, whose entries in the
\* three maps are act, chg and prb (None is <<>>)
refresh_session(s, c, act, chg, prb, now, content) ==
    LET ex == cache_exists(c, s.id, now)
        av == cache_activity(c, s.id, now)
        activity == IF av = <<>> THEN 0 ELSE av[1]
        keep == [status |-> s.status, act |-> act, chg |-> chg, prb |-> prb,
                 captured |-> FALSE]
    IN  IF ex = <<>> \/ ~ex[1]
        THEN [keep EXCEPT !.status = "idle", !.act = <<>>, !.chg = <<>>, !.prb = <<>>]
        ELSE IF act = <<>> \/ activity > act[1]
        THEN [keep EXCEPT !.act = <<activity>>, !.chg = <<now>>, !.status = "running"]
        ELSE LET need_fallback_probe == prb = <<>> \/ now - prb[1] >= STATUS_FALLBACK
                 activity_settled == chg # <<>> /\ now - chg[1] >= STATUS_COOLDOWN
             IN  IF ~(need_fallback_probe \/ (activity_settled /\ s.status = "running"))
                 THEN keep
                 ELSE [keep EXCEPT
                          !.status = IF has_prompt(content) THEN "waiting" ELSE "idle",
                          !.prb = <<now>>,
                          !.captured = TRUE]

\* the body of the switcher's probe loop for a session whose status in
\* status_by_id is st (None is <<>>)
switcher_session(id, st, c, act, chg, prb, now, content) ==
    LET ex == cache_exists(c, id, now)
        av == cache_activity(c, id, now)
        activity == IF av = <<>> THEN 0 ELSE av[1]
        keep == [status |-> st, act |-> act, chg |-> chg, prb |-> prb,
                 captured |-> FALSE]
    IN  IF ex = <<>> \/ ~ex[1]
        THEN [keep EXCEPT !.status = <<"idle">>, !.act = <<>>, !.chg = <<>>, !.prb = <<>>]
        ELSE LET activity_changed == act # <<>> /\ activity > act[1]
                 act2 == IF activity_changed \/ act = <<>> THEN <<activity>> ELSE act
                 chg2 == IF activity_changed THEN <<now>> ELSE chg
                 settled == chg2 # <<>> /\ now - chg2[1] >= SWITCHER_PROBE
                 need_probe == prb = <<>> \/ now - prb[1] >= SWITCHER_PROBE
                 should_probe == (settled /\ need_probe) \/ activity_changed \/ act = <<>>
                 tracked == [keep EXCEPT !.act = act2, !.chg = chg2]
             IN  IF ~should_probe THEN tracked
                 ELSE [tracked EXCEPT
                          !.status = IF has_prompt(content) THEN <<"waiting">>
                                     ELSE IF is_busy(content) THEN <<"running">>
                                     ELSE <<"idle">>,
                          !.prb = <<now>>,
                          !.captured = TRUE]

\* the index of the session with this id
IndexOf(ss, id) == CHOOSE i \in DOMAIN ss : ss[i].id = id

\* refresh_statuses over App::sessions, the cache being c
refresh_statuses(ss, c, now, failed) ==
    [i \in DOMAIN ss |->
        refresh_session(ss[i], c, last_tmux_activity[ss[i].id],
                        last_tmux_activity_change[ss[i].id],
                        last_status_probe[ss[i].id], now,
                        Captured(ss[i].id, failed))]

\* the sessions that a cache refreshed at `now` does not hold
AbsentIn(ss, c, now) ==
    {ss[i].id : i \in {j \in DOMAIN ss :
                          /\ is_valid(c, now)
                          /\ c.last_update = now
                          /\ ss[j].id \notin DOMAIN c.data}}

\* the screens captured in a probe loop whose results per session are r
CapturedBy(ss, r, failed) ==
    [id \in {ss[i].id : i \in {j \in DOMAIN r : r[j].captured}} |-> Captured(id, failed)]

\* the state after refresh_statuses, r being its results per session
AppRefreshed(r, c, now, failed, op) ==
    /\ sessions' = [i \in DOMAIN sessions |-> [sessions[i] EXCEPT !.status = r[i].status]]
    /\ last_tmux_activity' =
          [id \in DOMAIN last_tmux_activity |-> r[IndexOf(sessions, id)].act]
    /\ last_tmux_activity_change' =
          [id \in DOMAIN last_tmux_activity_change |-> r[IndexOf(sessions, id)].chg]
    /\ last_status_probe' =
          [id \in DOMAIN last_status_probe |-> r[IndexOf(sessions, id)].prb]
    /\ last_status_refresh' = now
    /\ uiOut' = [op |-> op,
                 captured |-> CapturedBy(sessions, r, failed),
                 absent |-> AbsentIn(sessions, c, now)]

\* App::new after the load: prime the cache and the statuses, both Results
\* dropped.
AppNew ==
    /\ consumer = "tui"
    /\ uiOut.op = "start"
    /\ \E outcome \in RefreshOutcomes : \E failed \in SUBSET DOMAIN panes :
          LET c == refresh_cache(cache, outcome, clock)
          IN  /\ cache' = c
              /\ last_cache_refresh' = clock
              /\ AppRefreshed(refresh_statuses(sessions, c, clock, failed), c, clock,
                              failed, "new")
    /\ UNCHANGED <<otherThanUi, consumer, status_by_id, groups>>

\* App::tick with a session selected and no navigation under way: the cache
\* refresh and the status refresh, each when due; `refresh_cache().await?`
\* ends the application on Err.
TuiTick ==
    /\ consumer = "tui"
    /\ uiOut.op \notin {"start", "quit"}
    /\ \E outcome \in RefreshOutcomes : \E failed \in SUBSET DOMAIN panes :
          LET cacheDue == clock - last_cache_refresh >= CACHE_REFRESH
              statusDue == clock - last_status_refresh >= STATUS_REFRESH
              c == IF cacheDue THEN refresh_cache(cache, outcome, clock) ELSE cache
          IN  IF cacheDue /\ outcome = "spawn_err"
              THEN /\ uiOut' = [op |-> "quit", captured |-> <<>>, absent |-> {}]
                   /\ UNCHANGED <<cache, last_cache_refresh, sessions, last_tmux_activity,
                                  last_tmux_activity_change, last_status_probe,
                                  last_status_refresh>>
              ELSE /\ cache' = c
                   /\ last_cache_refresh' = IF cacheDue THEN clock ELSE last_cache_refresh
                   /\ IF statusDue
                      THEN AppRefreshed(refresh_statuses(sessions, c, clock, failed),
                                        c, clock, failed, "tick")
                      ELSE /\ uiOut' = [op |-> "idle_tick", captured |-> <<>>, absent |-> {}]
                           /\ UNCHANGED <<sessions, last_tmux_activity,
                                          last_tmux_activity_change, last_status_probe,
                                          last_status_refresh>>
    /\ UNCHANGED <<otherThanUi, consumer, status_by_id, groups>>

\* the switcher's results per session (every session is visible)
switcher_statuses(ss, c, now, failed) ==
    [i \in DOMAIN ss |->
        switcher_session(ss[i].id, status_by_id[ss[i].id], c,
                         last_tmux_activity[ss[i].id],
                         last_tmux_activity_change[ss[i].id],
                         last_status_probe[ss[i].id], now,
                         Captured(ss[i].id, failed))]

\* one turn of run_switcher's loop: the cache refresh when due (its Result
\* dropped), then the probe loop over the visible sessions.
SwitcherTick ==
    /\ consumer = "switcher"
    /\ \E outcome \in RefreshOutcomes : \E failed \in SUBSET DOMAIN panes :
          LET cacheDue == clock - last_cache_refresh >= SWITCHER_CACHE_REFRESH
              c == IF cacheDue THEN refresh_cache(cache, outcome, clock) ELSE cache
              r == switcher_statuses(sessions, c, clock, failed)
          IN  /\ cache' = c
              /\ last_cache_refresh' = IF cacheDue THEN clock ELSE last_cache_refresh
              /\ status_by_id' = [id \in DOMAIN status_by_id |-> r[IndexOf(sessions, id)].status]
              /\ last_tmux_activity' =
                    [id \in DOMAIN last_tmux_activity |-> r[IndexOf(sessions, id)].act]
              /\ last_tmux_activity_change' =
                    [id \in DOMAIN last_tmux_activity_change |-> r[IndexOf(sessions, id)].chg]
              /\ last_status_probe' =
                    [id \in DOMAIN last_status_probe |-> r[IndexOf(sessions, id)].prb]
              /\ uiOut' = [op |-> "tick",
                           captured |-> CapturedBy(sessions, r, failed),
                           absent |-> AbsentIn(sessions, c, clock)]
    /\ UNCHANGED <<otherThanUi, consumer, sessions, groups, last_status_refresh>>

\* a session's program writes to its pane
PaneOutput ==
    /\ \E id \in DOMAIN panes : \E screen \in Screens :
          /\ panes[id].alive
          /\ panes' = [panes EXCEPT ![id] = [alive |-> TRUE, activity |-> clock,
                                             screen |-> screen]]
    /\ UNCHANGED <<otherThanEnv, prioVars, clock>>

\* a multiplexer session ends
PaneExit ==
    /\ \E id \in DOMAIN panes :
          /\ panes[id].alive
          /\ panes' = [panes EXCEPT ![id].alive = FALSE]
    /\ UNCHANGED <<otherThanEnv, prioVars, clock>>

\* a second passes
Advance ==
    /\ clock < StartTime + MaxTicks
    /\ clock' = clock + 1
    /\ UNCHANGED <<otherThanEnv, prioVars, panes>>

\* The sessions a consumer has loaded (status as persisted) and their
\* multiplexer sessions; the switcher starts with empty maps and an unset
\* cache.
InitUi ==
    /\ CmdOff
    /\ StoreOff
    /\ LockOff
    /\ PrioOff
    /\ clock = StartTime
    /\ consumer \in {"tui", "switcher"}
    /\ \E n \in 1..MaxUiSessions :
       \E st \in [1..n -> {"idle", "waiting", "running"}] :
          LET ids == [k \in 1..n |-> <<k>>]
              idSet == {ids[k] : k \in 1..n}
          IN  /\ sessions = [k \in 1..n |-> Instance(ids[k], <<>>, st[k], k, None, None, 0)]
              /\ panes \in [idSet -> [alive : BOOLEAN, activity : {StartTime - 1},
                                      screen : Screens]]
              /\ status_by_id = [id \in idSet |-> <<>>]
              /\ last_tmux_activity = [id \in idSet |-> <<>>]
              /\ last_tmux_activity_change = [id \in idSet |-> <<>>]
              /\ last_status_probe = [id \in idSet |-> <<>>]
    /\ groups = <<>>
    /\ cache = [last_update |-> None, data |-> <<>>]
    /\ last_cache_refresh = StartTime
    /\ last_status_refresh = StartTime
    /\ uiOut = [op |-> "start", captured |-> <<>>, absent |-> {}]

NextUi ==
    \/ AppNew
    \/ TuiTick
    \/ SwitcherTick
    \/ PaneOutput
    \/ PaneExit
    \/ Advance

SpecUi == InitUi /\ [][NextUi]_vars

(***************************************************************************)
(* Part V. The group tree and the TUI's group operations.  `groups` and    *)
(* `sessions` are the catalog the handlers load and save.                  *)
(***************************************************************************)
MaxDepth == 3

MaxTreeOps == 2

MaxArgDepth == 2

MaxTreeSessions == 1

\* the path segments of the model ("1" and "2")
Segments == {1, 2}

\* the group paths of at most MaxDepth segments
Paths == UNION {[1..d -> Segments] : d \in 1..MaxDepth}

\* the group paths the operations are called with
ArgPaths == {p \in Paths : Len(p) <= MaxArgDepth}

\* (mutant) the last segment of the prefix is not compared
MutUnderParent(path, prefix) ==
    /\ prefix # <<>>
    /\ Len(prefix) <= Len(path)
    /\ SubSeq(path, 1, Len(prefix) - 1) = SubSeq(prefix, 1, Len(prefix) - 1)

\* `path == prefix || path.starts_with(&format!("{}/", prefix))`
IsUnder(path, prefix) ==
    Len(prefix) <= Len(path) /\ SubSeq(path, 1, Len(prefix)) = prefix

\* GroupTree::parent_path: None is <<>>
parent_path(path) ==
    IF Len(path) > 1 THEN <<SubSeq(path, 1, Len(path) - 1)>> ELSE <<>>

\* HashMap::insert(group.path, group)
Insert(tree, g) ==
    [p \in (DOMAIN tree) \cup {g.path} |-> IF p = g.path THEN g ELSE tree[p]]

\* GroupTree::create_group
RECURSIVE create_group(_, _)
create_group(tree, path) ==
    IF path \in DOMAIN tree THEN tree
    ELSE LET t == Insert(tree, GroupData(path, TRUE, 0))
             parent == parent_path(path)
         IN  IF parent # <<>> THEN create_group(t, parent[1]) ELSE t

\* GroupTree::delete_group
delete_group(tree, path) == [p \in (DOMAIN tree) \ {path} |-> tree[p]]

\* GroupTree::delete_group_prefix: the group and every descendant
delete_group_prefix(tree, path) ==
    [p \in {q \in DOMAIN tree : ~IsUnder(q, path)} |-> tree[p]]

\* `format!("{new_prefix}{suffix}")`, suffix being `&path[old_prefix.len()..]`
Rewrite(path, old_prefix, new_prefix) ==
    new_prefix \o SubSeq(path, Len(old_prefix) + 1, Len(path))

\* (mutant) the renamed group made anew instead of cloned
MutRenamedFresh(data, new_path) == GroupData(new_path, TRUE, 0)

\* rename_prefix: `next`, the clone of a group with its new path and name
Renamed(data, new_path) ==
    [data EXCEPT !.path = new_path, !.name = new_path[Len(new_path)]]

\* rename_prefix's last loop: insert each update, then create its parent;
\* `order` is the order in which the HashMap yielded the groups
RECURSIVE apply_updates(_, _, _, _, _)
apply_updates(tree, from, order, old_prefix, new_prefix) ==
    IF order = <<>> THEN tree
    ELSE LET p == Rewrite(Head(order), old_prefix, new_prefix)
             t == Insert(tree, Renamed(from[Head(order)], p))
             parent == parent_path(p)
             u == IF parent # <<>> THEN create_group(t, parent[1]) ELSE t
         IN  apply_updates(u, from, Tail(order), old_prefix, new_prefix)

\* the groups rename_prefix moves
Moved(tree, old_prefix) == {p \in DOMAIN tree : IsUnder(p, old_prefix)}

\* the orders in which a HashMap can yield the groups of S
Orders(S) ==
    {o \in [1..Cardinality(S) -> S] : \A i, j \in DOMAIN o : o[i] = o[j] => i = j}

\* GroupTree::rename_prefix
rename_prefix(tree, old_prefix, new_prefix, order) ==
    IF old_prefix = <<>> \/ old_prefix = new_prefix THEN tree
    ELSE LET kept == [p \in (DOMAIN tree) \ Moved(tree, old_prefix) |-> tree[p]]
         IN  apply_updates(kept, tree, order, old_prefix, new_prefix)

\* apply_rename_group's loop over the sessions
rename_sessions(insts, old_path, new_path) ==
    [i \in DOMAIN insts |->
        IF IsUnder(insts[i].group_path, old_path)
        THEN [insts[i] EXCEPT !.group_path = Rewrite(@, old_path, new_path)]
        ELSE insts[i]]

\* (mutant) only the sessions of the group itself are kept out of it
MutUngroupExact(insts, group_path) ==
    [i \in DOMAIN insts |->
        IF insts[i].group_path = group_path
        THEN [insts[i] EXCEPT !.group_path = <<>>] ELSE insts[i]]

\* apply_delete_group_keep_sessions's loop: `inst.group_path.clear()`
ungroup_sessions(insts, group_path) ==
    [i \in DOMAIN insts |->
        IF IsUnder(insts[i].group_path, group_path)
        THEN [insts[i] EXCEPT !.group_path = <<>>] ELSE insts[i]]

\* the paths an operation may produce stay within MaxDepth
Fits(tree, insts) ==
    /\ \A p \in DOMAIN tree : Len(p) <= MaxDepth
    /\ \A i \in DOMAIN insts : Len(insts[i].group_path) <= MaxDepth

\* what an operation on the groups leaves in uiOut: its arguments, the
\* operation before it, and the groups and sessions it found at or under
\* its path
TreeOut(op, path, to) ==
    [op |-> op, arg |-> path, to |-> to, n |-> uiOut.n + 1,
     prev |-> <<uiOut.op, uiOut.arg, uiOut.to>>,
     hitGroups |-> {p \in DOMAIN groups : IsUnder(p, path)},
     hitSessions |-> {i \in DOMAIN sessions : IsUnder(sessions[i].group_path, path)}]

\* GroupTree::create_group called on the tree
CreateGroup ==
    /\ uiOut.n < MaxTreeOps
    /\ \E path \in Paths :
          /\ groups' = create_group(groups, path)
          /\ uiOut' = TreeOut("create", path, <<>>)
    /\ UNCHANGED <<otherThanUi, engineVars, sessions>>

\* GroupTree::delete_group called on the tree
DeleteGroup ==
    /\ uiOut.n < MaxTreeOps
    /\ \E path \in DOMAIN groups :
          /\ groups' = delete_group(groups, path)
          /\ uiOut' = TreeOut("delete", path, <<>>)
    /\ UNCHANGED <<otherThanUi, engineVars, sessions>>

\* App::apply_rename_group; `ok` is the outcome of the load and the save
ApplyRenameGroup ==
    /\ uiOut.n < MaxTreeOps
    /\ \E old_path \in ArgPaths : \E new_path \in ArgPaths : \E ok \in BOOLEAN :
       \E order \in Orders(Moved(groups, old_path)) :
          LET tree == rename_prefix(groups, old_path, new_path, order)
              insts == rename_sessions(sessions, old_path, new_path)
          IN  /\ Fits(tree, insts)
              /\ IF ok /\ old_path # new_path
                 THEN /\ groups' = tree
                      /\ sessions' = insts
                      /\ uiOut' = TreeOut("rename", old_path, new_path)
                 ELSE /\ uiOut' = TreeOut("none", old_path, new_path)
                      /\ UNCHANGED <<groups, sessions>>
    /\ UNCHANGED <<otherThanUi, engineVars>>

\* App::apply_delete_group_keep_sessions
ApplyDeleteGroupKeepSessions ==
    /\ uiOut.n < MaxTreeOps
    /\ \E group_path \in ArgPaths : \E ok \in BOOLEAN :
          IF ok
          THEN /\ sessions' = ungroup_sessions(sessions, group_path)
               /\ groups' = delete_group_prefix(groups, group_path)
               /\ uiOut' = TreeOut("delete_keep", group_path, <<>>)
          ELSE /\ uiOut' = TreeOut("none", group_path, <<>>)
               /\ UNCHANGED <<groups, sessions>>
    /\ UNCHANGED <<otherThanUi, engineVars>>

\* App::apply_delete_group_prefix
ApplyDeleteGroupPrefix ==
    /\ uiOut.n < MaxTreeOps
    /\ \E group_path \in ArgPaths : \E ok \in BOOLEAN :
          IF ok
          THEN /\ groups' = delete_group_prefix(groups, group_path)
               /\ uiOut' = TreeOut("delete_prefix", group_path, <<>>)
          ELSE /\ uiOut' = TreeOut("none", group_path, <<>>)
               /\ UNCHANGED groups
    /\ UNCHANGED <<otherThanUi, engineVars, sessions>>

\* the sets of groups a catalog starts with (each with its ancestors)
InitPathSets ==
    { {},
      {<<1>>},
      {<<1>>, <<2>>},
      {<<1>>, <<1, 1>>},
      {<<1>>, <<1, 2>>},
      {<<1>>, <<1, 2>>, <<2>>},
      {<<1>>, <<1, 1>>, <<1, 2>>} }

\* A catalog whose groups were created and toggled, its sessions in some of
\* the groups or in none.
InitTree ==
    /\ StoreOff
    /\ LockOff
    /\ PrioOff
    /\ EnvOff
    /\ CmdOff
    /\ consumer = "tui"
    /\ cache = [last_update |-> None, data |-> <<>>]
    /\ status_by_id = <<>>
    /\ last_tmux_activity = <<>>
    /\ last_tmux_activity_change = <<>>
    /\ last_status_probe = <<>>
    /\ last_cache_refresh = None
    /\ last_status_refresh = None
    /\ \E S \in InitPathSets : \E e \in [S -> BOOLEAN] :
       \E n \in 0..MaxTreeSessions : \E gp \in [1..n -> S \cup {<<>>}] :
          /\ groups = [p \in S |-> GroupData(p, e[p], 0)]
          /\ sessions = [k \in 1..n |-> Instance(<<k>>, gp[k], "idle", k, None, None, 0)]
    /\ uiOut = [op |-> "start", arg |-> <<>>, to |-> <<>>, n |-> 0, prev |-> <<>>,
                hitGroups |-> {}, hitSessions |-> {}]

NextTree ==
    \/ CreateGroup
    \/ DeleteGroup
    \/ ApplyRenameGroup
    \/ ApplyDeleteGroupKeepSessions
    \/ ApplyDeleteGroupPrefix

SpecTree == InitTree /\ [][NextTree]_vars

(***************************************************************************)
(* Part VI. The commands that write the catalog: `add` and `remove` of the *)
(* CLI, the TUI's session and group handlers, and the two ways a consumer  *)
(* loads it.  `sessions` and `groups` are the catalog on disk, `view` is   *)
(* what the last consumer holds after loading it.                          *)
(***************************************************************************)
MaxCatOps == 2

MaxCatSessions == 2

\* the directories of the model: under the home directory or not, and the
\* segments below it (or below "/")
ProjectPaths ==
    { [home |-> TRUE, parts |-> <<1, 2, 1>>],
      [home |-> FALSE, parts |-> <<2, 1>>] }

\* what a user types for a directory: its canonical spelling or another one
\* (a symlink, a relative path)
RawPaths == [dir : ProjectPaths, canonical : BOOLEAN]

\* (mutant) the path compared as it was typed
MutAsTyped(raw) ==
    IF raw.canonical THEN raw.dir ELSE [raw.dir EXCEPT !.parts = <<2>> \o @]

\* Path::canonicalize
canonicalize(raw) == raw.dir

\* the values generate_id can return
IdSpace == {<<1>>, <<2>>}

Titles == {"a"}

\* the groups the commands are given
CatGroups == {<<1>>, <<1, 2>>, <<2>>}

\* Option<String> of a group: <<>> is None, <<g>> is Some(g)
GroupOpts == {<<>>} \cup {<<g>> : g \in CatGroups \cup {<<>>}}

\* instance.rs: extract_group_path
extract_group_path(path) ==
    IF path.home
    THEN IF Len(path.parts) >= 2 THEN SubSeq(path.parts, 1, 2) ELSE path.parts
    ELSE IF path.parts # <<>> THEN <<path.parts[1]>> ELSE <<>>

\* Instance::new, `id` being what generate_id returned
Instance_new(id, title, project_path) ==
    [id |-> id, title |-> title, project_path |-> project_path,
     group_path |-> extract_group_path(project_path), status |-> "idle",
     created_at |-> Now, last_running_at |-> None, last_waiting_at |-> None,
     ptmx_count |-> 0]

\* Instance::with_group
with_group(id, title, project_path, group_path) ==
    [Instance_new(id, title, project_path) EXCEPT !.group_path = group_path]

\* GroupTree::set_expanded
set_expanded(tree, path, expanded) ==
    IF path \in DOMAIN tree
    THEN [tree EXCEPT ![path].expanded = expanded] ELSE tree

\* `for i in 1..=parts.len() { tree.set_expanded(&parts[..i].join("/"), true) }`
RECURSIVE expand_prefixes(_, _, _)
expand_prefixes(tree, path, i) ==
    IF i > Len(path) THEN tree
    ELSE expand_prefixes(set_expanded(tree, SubSeq(path, 1, i), TRUE), path, i + 1)

\* App::ensure_groups_exist
RECURSIVE ensure_groups_exist(_, _)
ensure_groups_exist(insts, tree) ==
    IF insts = <<>> THEN tree
    ELSE LET s == Head(insts)
             t == IF s.group_path # <<>> THEN create_group(tree, s.group_path) ELSE tree
         IN  ensure_groups_exist(Tail(insts), t)

\* Storage::load of what Storage::save wrote: the groups as all_groups lists
\* them, put back by from_groups
StoredTree(tree) == from_groups(all_groups(tree))

\* the sessions without those at the positions of `out`
RECURSIVE Retain(_, _, _)
Retain(insts, out, k) ==
    IF k > Len(insts) THEN <<>>
    ELSE (IF k \in out THEN <<>> ELSE <<insts[k]>>) \o Retain(insts, out, k + 1)

\* a command found the catalog unreadable or could not save it
Failed(op, path) ==
    /\ uiOut' = TreeOut(op, path, <<>>)
    /\ UNCHANGED <<sessions, groups>>

\* cli/commands.rs: handle_add
HandleAdd ==
    /\ uiOut.n < MaxCatOps
    /\ \E raw \in RawPaths : \E title \in Titles : \E group \in GroupOpts :
       \E id \in IdSpace : \E ok \in BOOLEAN :
          LET project_path == canonicalize(raw)
              instance == IF group # <<>>
                          THEN with_group(id, title, project_path, group[1])
                          ELSE Instance_new(id, title, project_path)
          IN  IF ~ok
              THEN /\ uiOut' = TreeOut("add_err", <<>>, <<>>) @@ [raw |-> raw]
                   /\ UNCHANGED <<sessions, groups>>
              ELSE IF \E i \in DOMAIN sessions : sessions[i].project_path = project_path
              THEN /\ uiOut' = TreeOut("add_dup", <<>>, <<>>) @@ [raw |-> raw]
                   /\ UNCHANGED <<sessions, groups>>
              ELSE /\ Len(sessions) < MaxCatSessions
                   /\ sessions' = Append(sessions, instance)
                   /\ uiOut' = TreeOut("add", instance.group_path, <<>>) @@ [raw |-> raw]
                   /\ UNCHANGED groups
    /\ UNCHANGED <<otherThanUi, engineVars>>

\* App::create_session_from_dialog; the dialog's path is validated
\* (canonicalized) before
CreateSessionFromDialog ==
    /\ uiOut.n < MaxCatOps
    /\ Len(sessions) < MaxCatSessions
    /\ \E raw \in RawPaths : \E title \in Titles : \E group_path \in CatGroups \cup {<<>>} :
       \E id \in IdSpace : \E ok \in BOOLEAN :
          LET new == Instance_new(id, title, canonicalize(raw))
              instance == IF group_path # <<>>
                          THEN [new EXCEPT !.group_path = group_path] ELSE new
          IN  IF ~ok THEN Failed("none", <<>>)
              ELSE /\ sessions' = Append(sessions, instance)
                   /\ groups' = IF group_path # <<>>
                                THEN create_group(groups, group_path) ELSE groups
                   /\ uiOut' = TreeOut("new", instance.group_path, <<>>)
    /\ UNCHANGED <<otherThanUi, engineVars>>

\* App::create_fork_session
CreateForkSession ==
    /\ uiOut.n < MaxCatOps
    /\ Len(sessions) < MaxCatSessions
    /\ \E p \in DOMAIN sessions : \E title \in Titles :
       \E group_path \in CatGroups \cup {<<>>} : \E id \in IdSpace : \E ok \in BOOLEAN :
          LET inst == [Instance_new(id, title, sessions[p].project_path)
                          EXCEPT !.group_path = group_path]
          IN  IF ~ok THEN Failed("none", <<>>)
              ELSE /\ sessions' = Append(sessions, inst)
                   /\ uiOut' = TreeOut("fork", group_path, <<>>)
                   /\ UNCHANGED groups
    /\ UNCHANGED <<otherThanUi, engineVars>>

\* App::apply_move_group
ApplyMoveGroup ==
    /\ uiOut.n < MaxCatOps
    /\ \E k \in DOMAIN sessions : \E group_path \in CatGroups \cup {<<>>} :
       \E ok \in BOOLEAN :
          IF ~ok THEN Failed("none", <<>>)
          ELSE /\ sessions' = [sessions EXCEPT ![k].group_path = group_path]
               /\ groups' = IF group_path # <<>>
                            THEN expand_prefixes(create_group(groups, group_path),
                                                 group_path, 1)
                            ELSE groups
               /\ uiOut' = TreeOut("move", group_path, <<>>)
    /\ UNCHANGED <<otherThanUi, engineVars>>

\* App::apply_create_group
ApplyCreateGroup ==
    /\ uiOut.n < MaxCatOps
    /\ \E group_path \in ArgPaths : \E ok \in BOOLEAN :
          IF ~ok THEN Failed("none", <<>>)
          ELSE /\ groups' = expand_prefixes(create_group(groups, group_path),
                                            group_path, 1)
               /\ uiOut' = TreeOut("create", group_path, <<>>)
               /\ UNCHANGED sessions
    /\ UNCHANGED <<otherThanUi, engineVars>>

\* App::apply_delete_group_and_sessions
ApplyDeleteGroupAndSessions ==
    /\ uiOut.n < MaxCatOps
    /\ \E group_path \in ArgPaths : \E ok \in BOOLEAN :
          IF ~ok THEN Failed("none", <<>>)
          ELSE /\ sessions' = Retain(sessions,
                                     {i \in DOMAIN sessions :
                                         IsUnder(sessions[i].group_path, group_path)}, 1)
               /\ groups' = delete_group_prefix(groups, group_path)
               /\ uiOut' = TreeOut("delete_all", group_path, <<>>)
    /\ UNCHANGED <<otherThanUi, engineVars>>

\* App::new and App::refresh_sessions: load, then ensure_groups_exist
AppLoad ==
    /\ view' = [by |-> "tui", sessions |-> sessions,
                groups |-> ensure_groups_exist(sessions, StoredTree(groups)),
                n |-> uiOut.n]
    /\ view' # view
    /\ UNCHANGED otherThanView

\* run_switcher: the sessions and the groups as Storage::load returns them
SwitcherLoad ==
    /\ view' = [by |-> "switcher", sessions |-> sessions,
                groups |-> StoredTree(groups), n |-> uiOut.n]
    /\ view' # view
    /\ UNCHANGED otherThanView

\* the sets of groups a catalog starts with
CatPathSets == { {}, {<<1>>}, {<<1>>, <<1, 2>>} }

\* A catalog with its groups and at most one session, in one of the groups
\* or in none; no consumer has loaded it.
InitCatalog ==
    /\ StoreOff
    /\ LockOff
    /\ PrioOff
    /\ EnvOff
    /\ CmdOff
    /\ consumer = "tui"
    /\ cache = [last_update |-> None, data |-> <<>>]
    /\ status_by_id = <<>>
    /\ last_tmux_activity = <<>>
    /\ last_tmux_activity_change = <<>>
    /\ last_status_probe = <<>>
    /\ last_cache_refresh = None
    /\ last_status_refresh = None
    /\ \E S \in CatPathSets : \E e \in [S -> {FALSE}] :
       \E n \in 0..1 : \E gp \in [1..n -> S \cup {<<>>}] :
       \E pp \in [1..n -> ProjectPaths] :
          /\ groups = [p \in S |-> GroupData(p, e[p], 0)]
          /\ sessions = [k \in 1..n |-> with_group(<<k>>, "a", pp[k], gp[k])]
    /\ uiOut = [op |-> "start", arg |-> <<>>, to |-> <<>>, n |-> 0, prev |-> <<>>,
                hitGroups |-> {}, hitSessions |-> {}]

NextCatalog ==
    \/ HandleAdd
    \/ CreateSessionFromDialog
    \/ CreateForkSession
    \/ ApplyMoveGroup
    \/ ApplyCreateGroup
    \/ ApplyRenameGroup
    \/ ApplyDeleteGroupKeepSessions
    \/ ApplyDeleteGroupPrefix
    \/ ApplyDeleteGroupAndSessions
    \/ AppLoad
    \/ SwitcherLoad

SpecCatalog == InitCatalog /\ [][NextCatalog]_vars

(***************************************************************************)
(* `remove` of the CLI and the TUI's delete, with the multiplexer.  Ids,   *)
(* titles and identifiers are strings: sequences of characters.            *)
(***************************************************************************)
MaxRemoveSessions == 2

MaxRemoveOps == 2

\* the ids, the titles and the identifiers of the model
RemoveIds == <<(<<1, 1>>), (<<1, 2>>)>>

RemoveTitles == {<<3>>, <<1, 1>>}

Identifiers == {<<1>>, <<1, 1>>, <<1, 2>>, <<3>>, <<4>>}

\* str::starts_with
starts_with(s, prefix) ==
    Len(prefix) <= Len(s) /\ SubSeq(s, 1, Len(prefix)) = prefix

\* handle_remove: the predicate of the partition
Matches(inst, identifier) ==
    \/ inst.id = identifier
    \/ starts_with(inst.id, identifier)
    \/ inst.title = identifier

\* TmuxManager::new: a cache never refreshed
TmuxManager_new == [last_update |-> None, data |-> <<>>]

\* `tmux kill-session -t name`
kill_session(ps, id) ==
    IF id \in DOMAIN ps THEN [ps EXCEPT ![id].alive = FALSE] ELSE ps

\* what a removal leaves in uiOut: the session it reported, whether that
\* session's multiplexer session was alive, and the ids it dropped
RemoveOut(op, id, dropped) ==
    [op |-> op, n |-> uiOut.n + 1, removed |-> id,
     was_alive |-> id \in DOMAIN panes /\ panes[id].alive, dropped |-> dropped]

\* cli/commands.rs: handle_remove
HandleRemove ==
    /\ uiOut.n < MaxRemoveOps
    /\ \E identifier \in Identifiers : \E loaded_ok \in BOOLEAN : \E saved_ok \in BOOLEAN :
          LET to_remove == {i \in DOMAIN sessions : Matches(sessions[i], identifier)}
              to_keep == Retain(sessions, to_remove, 1)
              removed == sessions[CHOOSE i \in to_remove : \A j \in to_remove : i <= j]
              manager == TmuxManager_new
              exists == cache_exists(manager, removed.id, Now)
          IN  IF ~loaded_ok \/ to_remove = {}
              THEN /\ uiOut' = RemoveOut("remove_err", <<>>, {})
                   /\ UNCHANGED <<sessions, panes>>
              ELSE /\ panes' = IF exists = <<TRUE>>
                               THEN kill_session(panes, removed.id) ELSE panes
                   /\ IF saved_ok
                      THEN /\ sessions' = to_keep
                           /\ uiOut' = RemoveOut("remove", removed.id,
                                                 {sessions[i].id : i \in to_remove})
                      ELSE /\ uiOut' = RemoveOut("remove_err", removed.id, {})
                           /\ UNCHANGED sessions
    /\ UNCHANGED <<storeVars, lockVars, prioVars, cmdVars, engineVars, groups, clock>>

\* App::delete_session, with the App's cache
DeleteSession ==
    /\ uiOut.n < MaxRemoveOps
    /\ \E k \in DOMAIN sessions : \E kill_tmux \in BOOLEAN : \E ok \in BOOLEAN :
          LET session_id == sessions[k].id
              exists == cache_exists(cache, session_id, Now)
          IN  /\ panes' = IF kill_tmux /\ exists = <<TRUE>>
                          THEN kill_session(panes, session_id) ELSE panes
              /\ IF ok
                 THEN /\ sessions' = Retain(sessions, {k}, 1)
                      /\ uiOut' = RemoveOut("delete", session_id, {session_id})
                 ELSE /\ uiOut' = RemoveOut("delete_err", session_id, {})
                      /\ UNCHANGED sessions
    /\ UNCHANGED <<storeVars, lockVars, prioVars, cmdVars, engineVars, groups, clock>>

\* A catalog of one or two sessions, the multiplexer session of each alive or
\* not, and a TUI whose cache was just refreshed.
InitRemove ==
    /\ StoreOff
    /\ LockOff
    /\ PrioOff
    /\ CmdOff
    /\ clock = StartTime
    /\ consumer = "tui"
    /\ \E n \in 1..MaxRemoveSessions : \E t \in [1..n -> RemoveTitles] :
          LET idSet == {RemoveIds[k] : k \in 1..n}
          IN  /\ sessions = [k \in 1..n |->
                                [Instance_new(RemoveIds[k], t[k], CHOOSE d \in ProjectPaths : TRUE)
                                    EXCEPT !.group_path = <<>>]]
              /\ panes \in [idSet -> [alive : BOOLEAN, activity : {StartTime - 1},
                                      screen : {{}}]]
    /\ groups = <<>>
    /\ cache = refresh_cache(TmuxManager_new, "ok", StartTime)
    /\ status_by_id = <<>>
    /\ last_tmux_activity = <<>>
    /\ last_tmux_activity_change = <<>>
    /\ last_status_probe = <<>>
    /\ last_cache_refresh = StartTime
    /\ last_status_refresh = StartTime
    /\ uiOut = [op |-> "start", n |-> 0, removed |-> <<>>, was_alive |-> FALSE,
                dropped |-> {}]

NextRemove ==
    \/ HandleRemove
    \/ DeleteSession
    \/ PaneExit

SpecRemove == InitRemove /\ [][NextRemove]_vars

(***************************************************************************)
(* Part VII.  The detector on the text of a capture.  A captured text is a *)
(* sequence of lines and a line a sequence of tokens: a phrase, a blank, a *)
(* spinner character or an ANSI escape sequence.                           *)
(***************************************************************************)
\* one match of ANSI_RE (a CSI sequence such as "\x1b[0m")
ESC == "\\x1b[0m"

\* one of spinner_chars
SPINNER == "spinner"

\* white space
BLANK == " "

\* is_busy and has_prompt: get_last_lines(content, 15)
LAST_LINES == 15

\* is_busy: the spinner is looked for in the last 3 of these lines
SPINNER_LINES == 3

\* strip_ansi: every match of ANSI_RE is replaced by nothing; the line breaks stay
strip_ansi(text) ==
    [l \in 1..Len(text) |-> SelectSeq(text[l], LAMBDA t : t # ESC)]

\* `l.trim().is_empty()`
trim_is_empty(line) == \A k \in 1..Len(line) : line[k] = BLANK

\* get_last_lines: the last n of the lines that are not empty once trimmed
get_last_lines(text, n) ==
    LET kept == SelectSeq(text, LAMBDA line : ~trim_is_empty(line))
    IN  IF Len(kept) > n THEN SubSeq(kept, Len(kept) - n + 1, Len(kept)) ELSE kept

\* the phrases a `contains` finds in the lines
PhrasesIn(lines) ==
    UNION {{lines[l][k] : k \in 1..Len(lines[l])} : l \in 1..Len(lines)}

\* PromptDetector::is_busy on a text: the window is cut from the text as it
\* is, the phrases are looked for in the stripped window and the spinner in
\* the last lines of the window as cut
is_busy_text(text) ==
    LET lines == get_last_lines(text, LAST_LINES)
        recent == strip_ansi(lines)
        last_3 == IF Len(lines) > SPINNER_LINES
                  THEN SubSeq(lines, Len(lines) - SPINNER_LINES + 1, Len(lines))
                  ELSE lines
    IN  \/ is_busy(PhrasesIn(recent) \ {SPINNER})
        \/ SPINNER \in PhrasesIn(last_3)

\* PromptDetector::has_prompt on a text
has_prompt_text(text) ==
    LET lines == get_last_lines(text, LAST_LINES)
        recent == strip_ansi(lines)
    IN  has_prompt(PhrasesIn(recent))

\* what the detector says of a text
classify(text) == [is_busy |-> is_busy_text(text), has_prompt |-> has_prompt_text(text)]

\* The lines a capture is made of
DetectLines ==
    { <<>>, <<BLANK>>, <<ESC>>, <<"ok">>, <<SPINNER>>, <<"continue?">>,
      <<ESC, "esc to interrupt", ESC>> }

MaxTailLines == 2

\* the numbers of "ok" lines between the first line and the last ones
Fillers == {0, LAST_LINES - 2, LAST_LINES - 1}

\* A first line, filler lines, and up to MaxTailLines last lines
Captures ==
    { <<first>> \o [k \in 1..n |-> <<"ok">>] \o tail :
        first \in DetectLines, n \in Fillers,
        tail \in UNION {[1..m -> DetectLines] : m \in 0..MaxTailLines} }

\* The detector is given the text and the stripped text
Classify ==
    /\ verdict = <<>>
    /\ verdict' = [of_text |-> classify(captured),
                   of_stripped |-> classify(strip_ansi(captured))]
    /\ UNCHANGED <<otherThanDet, captured>>

InitDetect ==
    /\ StoreOff
    /\ LockOff
    /\ PrioOff
    /\ EnvOff
    /\ UiOff
    /\ ViewOff
    /\ BindOff
    /\ NavOff
    /\ SharedOff
    /\ captured \in Captures
    /\ verdict = <<>>

NextDetect == Classify

SpecDetect == InitDetect /\ [][NextDetect]_vars

(***************************************************************************)
(* Part VIII.  One TmuxManager and its cache: refresh, create, and the     *)
(* two queries, against a server whose sessions come and go.               *)
(***************************************************************************)
\* the session names of the server
MgrNames == {<<1>>}

\* a register that forgets the name
MutRegisterNothing(c, name, now) == c

\* SessionCache::register: the name is inserted with the present time, the
\* time of the last update stays
register(c, name, now) ==
    [c EXCEPT !.data = [n \in DOMAIN c.data \cup {name} |->
                           IF n = name THEN now ELSE c.data[n]]]

\* what an operation of the manager leaves behind: the cache it worked on
\* was last updated at last_update and held the names in held
MgrOut(op, name, ok, answer, c) ==
    [op |-> op, name |-> name, ok |-> ok, answer |-> answer, at |-> clock,
     last_update |-> c.last_update, held |-> DOMAIN c.data]

\* TmuxManager::refresh_cache
MgrRefresh ==
    /\ \E outcome \in RefreshOutcomes :
          /\ cache' = refresh_cache(cache, outcome, clock)
          /\ uiOut' = MgrOut("refresh", <<>>, outcome # "spawn_err", <<>>, cache)
    /\ UNCHANGED <<otherThanUi, consumer, sessions, groups, status_by_id,
                   last_tmux_activity, last_tmux_activity_change, last_status_probe,
                   last_cache_refresh, last_status_refresh>>

\* TmuxManager::create_session, and session_exists right after it: `tmux`
\* cannot be spawned or new-session fails otherwise (Err), the session
\* exists already ("duplicate session", Ok), or it is created (Ok)
MgrCreate ==
    /\ \E name \in MgrNames : \E outcome \in {"spawn_err", "failed", "run"} :
          IF outcome = "run"
          THEN /\ panes' = IF panes[name].alive THEN panes
                           ELSE [panes EXCEPT ![name] = [alive |-> TRUE, activity |-> clock,
                                                         screen |-> {}]]
               /\ cache' = register(cache, name, clock)
               /\ uiOut' = MgrOut(IF panes[name].alive THEN "create_dup" ELSE "create",
                                  name, TRUE, cache_exists(cache', name, clock), cache)
          ELSE /\ ~panes[name].alive
               /\ uiOut' = MgrOut("create_err", name, FALSE, <<>>, cache)
               /\ UNCHANGED <<cache, panes>>
    /\ UNCHANGED <<storeVars, lockVars, prioVars, cmdVars, clock, consumer, sessions,
                   groups, status_by_id, last_tmux_activity, last_tmux_activity_change,
                   last_status_probe, last_cache_refresh, last_status_refresh>>

\* TmuxManager::session_exists
MgrSessionExists ==
    /\ \E name \in MgrNames :
          uiOut' = MgrOut("exists", name, TRUE, cache_exists(cache, name, clock), cache)
    /\ UNCHANGED <<otherThanUi, engineVars, sessions, groups>>

\* TmuxManager::session_activity
MgrSessionActivity ==
    /\ \E name \in MgrNames :
          uiOut' = MgrOut("activity", name, TRUE, cache_activity(cache, name, clock), cache)
    /\ UNCHANGED <<otherThanUi, engineVars, sessions, groups>>

\* another process starts a session on the server
PaneStart ==
    /\ \E id \in DOMAIN panes :
          /\ ~panes[id].alive
          /\ panes' = [panes EXCEPT ![id] = [alive |-> TRUE, activity |-> clock,
                                             screen |-> {}]]
    /\ UNCHANGED <<otherThanEnv, prioVars, clock>>

\* TmuxManager::new, the sessions of the server running or not
InitManager ==
    /\ StoreOff
    /\ LockOff
    /\ PrioOff
    /\ CmdOff
    /\ clock = StartTime
    /\ consumer = "manager"
    /\ sessions = <<>>
    /\ groups = <<>>
    /\ panes \in [MgrNames -> [alive : BOOLEAN, activity : {StartTime - 1}, screen : {{}}]]
    /\ cache = TmuxManager_new
    /\ status_by_id = <<>>
    /\ last_tmux_activity = <<>>
    /\ last_tmux_activity_change = <<>>
    /\ last_status_probe = <<>>
    /\ last_cache_refresh = None
    /\ last_status_refresh = None
    /\ uiOut = [op |-> "start", name |-> <<>>, ok |-> TRUE, answer |-> <<>>,
                at |-> StartTime, last_update |-> None, held |-> {}]

NextManager ==
    \/ MgrRefresh
    \/ MgrCreate
    \/ MgrSessionExists
    \/ MgrSessionActivity
    \/ PaneStart
    \/ PaneExit
    \/ Advance

SpecManager == InitManager /\ [][NextManager]_vars

(***************************************************************************)
(* Part IX.  ensure_server_bindings: every process that creates a session  *)
(* installs the key bindings on the shared server.  Each tmux command is   *)
(* one step; no lock spans them.                                           *)
(***************************************************************************)
NumInstallers == 2

Installers == 1..NumInstallers

\* the logical actions, in the order ensure_server_bindings treats them
BindOrder == <<"detach", "switcher", "jump">>

BindActions == {BindOrder[i] : i \in 1..Len(BindOrder)}

\* the keys a configuration can name
Keys == {"C-q", "C-g", "C-n", "C-x"}

\* detach_key, switch_key, jump_key: the configuration every process loads
\* (here the defaults)
Configured == [detach |-> "C-q", switcher |-> "C-g", jump |-> "C-n"]

\* AGENTHAND_DETACH_KEY, AGENTHAND_SWITCHER_KEY, AGENTHAND_JUMP_KEY
RecordName == [detach |-> "AGENTHAND_DETACH_KEY", switcher |-> "AGENTHAND_SWITCHER_KEY",
               jump |-> "AGENTHAND_JUMP_KEY"]

\* the assignments of keys a configuration can make: one key per action
KeyConfigs == {c \in [BindActions -> Keys] : \A a, b \in BindActions : a # b => c[a] # c[b]}

\* need_detach_bind, need_switch_bind, need_jump_bind
need_bind(cur, a) == cur[a] # <<Configured[a]>>

\* the position after this one inside a phase of three, or the next phase
Step(in, nextPhase) ==
    IF in.i < Len(BindOrder) THEN [in EXCEPT !.i = in.i + 1]
    ELSE [in EXCEPT !.pc = nextPhase, !.i = 1]

\* get_environment_global(AGENTHAND_*_KEY): current_detach, current_switch,
\* current_jump, one after the other
ReadRecord(p) ==
    /\ installer[p].pc = "read"
    /\ LET a == BindOrder[installer[p].i]
           in == [installer[p] EXCEPT !.current[a] = records[RecordName[a]]]
       IN  installer' = [installer EXCEPT ![p] = Step(in, "unbind")]
    /\ UNCHANGED <<otherThanBind, bindings, records>>

\* "Unbind previous custom keys if they differ": unbind-key -n <old>
Unbind(p) ==
    /\ installer[p].pc = "unbind"
    /\ LET in == installer[p]
           a == BindOrder[in.i]
       IN  IF need_bind(in.current, a) /\ in.current[a] # <<>>
           THEN /\ bindings' = [bindings EXCEPT ![in.current[a][1]] = "none"]
                /\ installer' = [installer EXCEPT ![p] =
                                    Step([in EXCEPT !.issued = @ \cup {<<"unbind-key", a>>}],
                                         "bind")]
           ELSE /\ installer' = [installer EXCEPT ![p] = Step(in, "bind")]
                /\ UNCHANGED bindings
    /\ UNCHANGED <<otherThanBind, records>>

\* "only bind if needed": bind-key -n <key> <what the action does>
Bind(p) ==
    /\ installer[p].pc = "bind"
    /\ LET in == installer[p]
           a == BindOrder[in.i]
       IN  IF need_bind(in.current, a)
           THEN /\ bindings' = [bindings EXCEPT ![Configured[a]] = a]
                /\ installer' = [installer EXCEPT ![p] =
                                    [in EXCEPT !.pc = "record",
                                               !.issued = @ \cup {<<"bind-key", a>>}]]
           ELSE /\ installer' = [installer EXCEPT ![p] = Step(in, "done")]
                /\ UNCHANGED bindings
    /\ UNCHANGED <<otherThanBind, records>>

\* set_environment_global(AGENTHAND_*_KEY, key) after the bind
SetRecord(p) ==
    /\ installer[p].pc = "record"
    /\ LET in == installer[p]
           a == BindOrder[in.i]
       IN  /\ records' = [records EXCEPT ![RecordName[a]] = <<Configured[a]>>]
           /\ installer' = [installer EXCEPT ![p] = Step([in EXCEPT !.pc = "bind"], "done")]
    /\ UNCHANGED <<otherThanBind, bindings>>

\* The server is new (no record, no binding) or carries what a run with an
\* earlier configuration left; every process is at the start of
\* ensure_server_bindings.
InitBindings ==
    /\ StoreOff
    /\ LockOff
    /\ PrioOff
    /\ EnvOff
    /\ UiOff
    /\ ViewOff
    /\ DetOff
    /\ NavOff
    /\ SharedOff
    /\ \/ /\ records = [r \in {RecordName[a] : a \in BindActions} |-> <<>>]
          /\ bindings = [k \in Keys |-> "none"]
       \/ \E old \in KeyConfigs :
             /\ records = [r \in {RecordName[a] : a \in BindActions} |->
                              <<old[CHOOSE a \in BindActions : RecordName[a] = r]>>]
             /\ bindings = [k \in Keys |->
                              IF \E a \in BindActions : old[a] = k
                              THEN CHOOSE a \in BindActions : old[a] = k
                              ELSE "none"]
    /\ installer = [p \in Installers |->
                       [pc |-> "read", i |-> 1, current |-> [a \in BindActions |-> <<>>],
                        issued |-> {}]]

NextBindings ==
    \E p \in Installers :
        \/ ReadRecord(p)
        \/ Unbind(p)
        \/ Bind(p)
        \/ SetRecord(p)

SpecBindings == InitBindings /\ [][NextBindings]_vars

(***************************************************************************)
(* Part X.  The two state engines side by side: `statusline` runs over the *)
(* stored catalog while a TUI ticks over the catalog it loaded.            *)
(***************************************************************************)
\* the stored session and the answer to its probe, as in SessionStates
EngineStates ==
    { <<"idle", "prompt", None, None>>,
      <<"idle", "quiet", None, 8>>,
      <<"running", "fail", None, 8>> }

\* The stored catalog of one session with its multiplexer answer, and a TUI
\* that has loaded one session of a catalog with groups.
InitEngine ==
    /\ StoreOff
    /\ LockOff
    /\ CmdOff
    /\ \E st \in EngineStates :
          /\ instances = <<Instance(<<1>>, <<1>>, st[1], 1, st[4], st[3], 0)>>
          /\ mux = [i \in {<<1>>} |-> st[2]]
    /\ current = <<>>
    /\ jumpOut = [kind |-> "none", target |-> <<>>, from |-> <<>>]
    /\ jumpLog = <<current>>
    /\ priorityEnv = <<>>
    /\ statusOut = [kind |-> "none", waiting |-> 0, ready |-> 0, running |-> 0,
                    idle |-> 0, error |-> 0, priority |-> <<>>, from |-> <<>>]
    /\ observed = <<>>
    /\ statusCmdOut = [kind |-> "none", waiting |-> 0, running |-> 0, idle |-> 0,
                       error |-> 0, total |-> 0, seen |-> <<>>]
    /\ clock = StartTime
    /\ consumer = "tui"
    /\ \E st \in {"idle", "running"} :
          sessions = <<Instance(<<1>>, <<1>>, st, 1, None, None, 0)>>
    /\ panes \in [{<<1>>} -> [alive : BOOLEAN, activity : {StartTime - 1},
                              screen : {{}, {"continue?"}}]]
    /\ status_by_id = [id \in {<<1>>} |-> <<>>]
    /\ last_tmux_activity = [id \in {<<1>>} |-> <<>>]
    /\ last_tmux_activity_change = [id \in {<<1>>} |-> <<>>]
    /\ last_status_probe = [id \in {<<1>>} |-> <<>>]
    /\ groups = from_groups(<<GroupData(<<1>>, TRUE, 0), GroupData(<<2>>, FALSE, 1)>>)
    /\ cache = [last_update |-> None, data |-> <<>>]
    /\ last_cache_refresh = StartTime
    /\ last_status_refresh = StartTime
    /\ uiOut = [op |-> "start", captured |-> <<>>, absent |-> {}]

NextEngine ==
    \/ Statusline
    \/ AppNew
    \/ TuiTick
    \/ Advance

SpecEngine == InitEngine /\ [][NextEngine]_vars

(***************************************************************************)
(* Part XI.  A TUI whose ticks keep coming, over sessions that stay alive  *)
(* and never write: time does not pass a status refresh that is due.       *)
(***************************************************************************)
MaxLiveTicks == 6

\* a second passes once the status refresh that was due has run
AdvanceTicked ==
    /\ clock < StartTime + MaxLiveTicks
    /\ uiOut.op # "start"
    /\ clock - last_status_refresh < STATUS_REFRESH
    /\ clock' = clock + 1
    /\ UNCHANGED <<otherThanEnv, prioVars, panes>>

InitUiLive ==
    /\ InitUi
    /\ consumer = "tui"
    /\ \A id \in DOMAIN panes : panes[id].alive

NextUiLive ==
    \/ AppNew
    \/ TuiTick
    \/ AdvanceTicked

SpecUiLive ==
    /\ InitUiLive
    /\ [][NextUiLive]_vars
    /\ WF_vars(AppNew)
    /\ WF_vars(TuiTick)
    /\ WF_vars(AdvanceTicked)

(***************************************************************************)
(* Part XII.  `statusline` run after run, each a process of its own, over  *)
(* panes that write between the runs.                                      *)
(***************************************************************************)
\* TmuxSession::new (Instance::init_tmux): last_activity is None (<<>>)
TmuxSession_new == [last_activity |-> <<>>]

\* TmuxSession::update_status on the manager's cache c: the status, or
\* <<>> when capture_pane returns Err
TmuxSession_update_status(ts, c, id, now, failed) ==
    LET ex == cache_exists(c, id, now)
        activity == cache_activity(c, id, now)
    IN  IF ex = <<>> \/ ~ex[1] THEN <<"error">>
        ELSE IF id \in failed \/ ~panes[id].alive THEN <<>>
        ELSE IF has_prompt(panes[id].screen) THEN <<"waiting">>
        ELSE IF activity # <<>> /\ ts.last_activity # <<>>
                /\ activity[1] > ts.last_activity[1] THEN <<"running">>
        ELSE <<"idle">>

\* handle_statusline's loop body: init_tmux, update_status (Result dropped)
\* and the two stamps
StatuslineSession(inst, c, now, failed) ==
    LET st == TmuxSession_update_status(TmuxSession_new, c, inst.id, now, failed)
        s == IF st = <<>> THEN inst ELSE [inst EXCEPT !.status = st[1]]
        w == IF s.status = "waiting" /\ inst.status # "waiting"
             THEN [s EXCEPT !.last_waiting_at = now] ELSE s
    IN  IF w.status = "running"
           /\ (w.last_running_at = None \/ now - w.last_running_at >= TouchSecs)
        THEN [w EXCEPT !.last_running_at = now] ELSE w

\* one `statusline` process from load to save; `observed` keeps, per
\* session, the status it derived and the activity its cache held
StatuslineRun ==
    /\ \E outcome \in RefreshOutcomes : \E failed \in SUBSET DOMAIN panes :
          LET c == refresh_cache(TmuxManager_new, outcome, clock)
              probed == [i \in DOMAIN instances |->
                            StatuslineSession(instances[i], c, clock, failed)]
          IN  IF outcome = "spawn_err"
              THEN /\ statusOut' = [statusOut EXCEPT !.kind = "err"]
                   /\ UNCHANGED <<instances, observed>>
              ELSE /\ instances' = probed
                   /\ statusOut' = [statusOut EXCEPT !.kind = "line"]
                   /\ observed' = [i \in DOMAIN probed |->
                                      [status |-> probed[i].status,
                                       activity |-> cache_activity(c, probed[i].id, clock),
                                       prompt |-> has_prompt(Captured(probed[i].id, failed)),
                                       at |-> clock]]
    /\ UNCHANGED <<otherThanPrio, mux, current, jumpOut, jumpLog, priorityEnv, statusCmdOut>>

\* A stored catalog of one session and its pane
InitRuns ==
    /\ StoreOff
    /\ LockOff
    /\ CmdOff
    /\ UiOff
    /\ clock = StartTime
    /\ panes \in [{<<1>>} -> [alive : BOOLEAN, activity : {StartTime - 1}, screen : Screens]]
    /\ \E st \in {"idle", "waiting", "running"} :
          instances = <<Instance(<<1>>, <<>>, st, 1, None, None, 0)>>
    /\ mux = <<>>
    /\ current = <<>>
    /\ jumpOut = [kind |-> "none", target |-> <<>>, from |-> <<>>]
    /\ jumpLog = <<>>
    /\ priorityEnv = <<>>
    /\ statusOut = [kind |-> "none", waiting |-> 0, ready |-> 0, running |-> 0,
                    idle |-> 0, error |-> 0, priority |-> <<>>, from |-> <<>>]
    /\ observed = <<>>
    /\ statusCmdOut = [kind |-> "none", waiting |-> 0, running |-> 0, idle |-> 0,
                       error |-> 0, total |-> 0, seen |-> <<>>]

NextRuns ==
    \/ StatuslineRun
    \/ PaneOutput
    \/ PaneExit
    \/ Advance

SpecRuns == InitRuns /\ [][NextRuns]_vars

(***************************************************************************)
(* Part XIII.  The TUI under keys: App::tick with its navigation gate,     *)
(* the navigation keys and the handlers that end in refresh_sessions.      *)
(***************************************************************************)
\* NAVIGATION_SETTLE is 300 ms; the model's clock counts seconds and keeps
\* the settle time at one step of it
NAVIGATION_SETTLE == 1

KeyStatuses == {"idle", "waiting", "running"}

otherThanUiNav ==
    <<storeVars, lockVars, prioVars, envVars, view, detVars, bindVars, sharedVars>>

\* App::on_navigation: the keys Up, k, Down and j, and the start of
\* event_loop
OnNavigation ==
    /\ consumer = "tui"
    /\ uiOut.op \notin {"start", "quit"}
    /\ is_navigating' = TRUE
    /\ last_navigation_time' = clock
    /\ uiOut' = [op |-> "navigate", captured |-> <<>>, absent |-> {}]
    /\ UNCHANGED <<otherThanUiNav, engineVars, sessions, groups>>

\* App::tick with a session selected: a navigation that has settled is
\* cleared, and without a navigation under way the cache refresh and the
\* status refresh run, each when due
AppTick ==
    /\ consumer = "tui"
    /\ uiOut.op \notin {"start", "quit"}
    /\ LET settled == is_navigating /\ clock - last_navigation_time > NAVIGATION_SETTLE
           navigating == is_navigating /\ ~settled
       IN  /\ is_navigating' = navigating
           /\ IF navigating
              THEN /\ uiOut' = [op |-> "nav_tick", captured |-> <<>>, absent |-> {}]
                   /\ UNCHANGED <<engineVars, sessions>>
              ELSE \E outcome \in RefreshOutcomes : \E failed \in SUBSET DOMAIN panes :
                     LET cacheDue == clock - last_cache_refresh >= CACHE_REFRESH
                         statusDue == clock - last_status_refresh >= STATUS_REFRESH
                         c == IF cacheDue THEN refresh_cache(cache, outcome, clock) ELSE cache
                     IN  IF cacheDue /\ outcome = "spawn_err"
                         THEN /\ uiOut' = [op |-> "quit", captured |-> <<>>, absent |-> {}]
                              /\ UNCHANGED <<engineVars, sessions>>
                         ELSE /\ cache' = c
                              /\ last_cache_refresh' =
                                    IF cacheDue THEN clock ELSE last_cache_refresh
                              /\ IF statusDue
                                 THEN AppRefreshed(refresh_statuses(sessions, c, clock, failed),
                                                   c, clock, failed, "tick")
                                 ELSE /\ uiOut' = [op |-> "idle_tick", captured |-> <<>>,
                                                   absent |-> {}]
                                      /\ UNCHANGED <<sessions, last_tmux_activity,
                                                     last_tmux_activity_change,
                                                     last_status_probe, last_status_refresh>>
                              /\ UNCHANGED <<consumer, status_by_id>>
    /\ UNCHANGED <<otherThanUiNav, last_navigation_time, groups>>

\* App::refresh_sessions (Ctrl-r, and the end of the handlers that changed
\* the catalog or the multiplexer): the catalog is loaded again, statuses as
\* the file has them, the cache is refreshed when due, and refresh_statuses
\* runs
RefreshSessions ==
    /\ consumer = "tui"
    /\ uiOut.op \notin {"start", "quit"}
    /\ \E st \in [DOMAIN sessions -> KeyStatuses] :
       \E outcome \in RefreshOutcomes : \E failed \in SUBSET DOMAIN panes :
          LET reloaded == [i \in DOMAIN sessions |-> [sessions[i] EXCEPT !.status = st[i]]]
              cacheDue == clock - last_cache_refresh >= CACHE_REFRESH
              c == IF cacheDue THEN refresh_cache(cache, outcome, clock) ELSE cache
          IN  IF cacheDue /\ outcome = "spawn_err"
              THEN /\ uiOut' = [op |-> "quit", captured |-> <<>>, absent |-> {}]
                   /\ sessions' = reloaded
                   /\ UNCHANGED engineVars
              ELSE /\ cache' = c
                   /\ last_cache_refresh' = IF cacheDue THEN clock ELSE last_cache_refresh
                   /\ AppRefreshed(refresh_statuses(reloaded, c, clock, failed),
                                   c, clock, failed, "refresh")
                   /\ UNCHANGED <<consumer, status_by_id>>
    /\ groups' = ensure_groups_exist(sessions, groups)
    /\ UNCHANGED <<otherThanUiNav, navVars>>

InitKeys ==
    /\ InitUi
    /\ consumer = "tui"

NextKeys ==
    \/ AppNew
    \/ AppTick
    \/ OnNavigation
    \/ RefreshSessions
    \/ Advance

SpecKeys == InitKeys /\ [][NextKeys]_vars

(***************************************************************************)
(* Part XIV.  Processes sharing one catalog.  Each loads sessions.json     *)
(* whole and saves it whole (Storage::save renames a finished file into    *)
(* place); nothing holds the file between a process's load and its save.   *)
(***************************************************************************)
SharedProcs == {"cli", "statusline", "tui"}

\* the session of the catalog, and the one `add` appends
SharedOld == <<1>>

SharedNew == <<2>>

SharedGroup == <<1>>

Ids(insts) == {insts[i].id : i \in DOMAIN insts}

TxnIdle == [pc |-> "idle", cmd |-> "none", instances |-> <<>>, tree |-> EmptyTree]

\* `storage.load().await?` of a command: handle_add or handle_remove
CliLoad ==
    /\ txn["cli"].pc = "idle"
    /\ \E cmd \in {"add", "remove"} :
          txn' = [txn EXCEPT !["cli"] = [pc |-> "loaded", cmd |-> cmd,
                                         instances |-> disk.instances,
                                         tree |-> disk.tree]]
    /\ UNCHANGED <<otherThanCmd, view, detVars, bindVars, navVars, disk, committed>>

\* the rest of the command: handle_add pushes a session of a path no session
\* has and saves; handle_remove saves what its identifier (the id of the old
\* session) does not match, or fails without a save when nothing matches
CliSave ==
    /\ txn["cli"].pc = "loaded"
    /\ LET t == txn["cli"]
           to_keep == SelectSeq(t.instances, LAMBDA inst : inst.id # SharedOld)
           to_remove == SelectSeq(t.instances, LAMBDA inst : inst.id = SharedOld)
       IN  /\ txn' = [txn EXCEPT !["cli"].pc = "done"]
           /\ IF t.cmd = "add"
              THEN /\ disk' = [instances |->
                                   Append(t.instances,
                                          Instance(SharedNew, <<>>, "idle", Now, None, None, 0)),
                               tree |-> t.tree]
                   /\ committed' = [committed EXCEPT !.added = @ \cup {SharedNew}]
              ELSE IF to_remove = <<>>
              THEN UNCHANGED <<disk, committed>>
              ELSE /\ disk' = [instances |-> to_keep, tree |-> t.tree]
                   /\ committed' = [committed EXCEPT !.removed = @ \cup Ids(to_remove)]
    /\ UNCHANGED <<otherThanCmd, view, detVars, bindVars, navVars>>

\* handle_statusline's load; it ends there on an empty catalog
SharedStatuslineLoad ==
    /\ txn["statusline"].pc = "idle"
    /\ txn' = [txn EXCEPT !["statusline"] =
                  [pc |-> IF disk.instances = <<>> THEN "done" ELSE "loaded",
                   cmd |-> "statusline",
                   instances |-> disk.instances, tree |-> disk.tree]]
    /\ UNCHANGED <<otherThanCmd, view, detVars, bindVars, navVars, disk, committed>>

\* the rest of handle_statusline: the cache refresh, the loop, and the save
\* of the instances and the tree it loaded when a stamp was set
SharedStatuslineSave ==
    /\ txn["statusline"].pc = "loaded"
    /\ \E outcome \in RefreshOutcomes : \E failed \in SUBSET DOMAIN panes :
          LET t == txn["statusline"]
              c == refresh_cache(TmuxManager_new, outcome, clock)
              probed == [i \in DOMAIN t.instances |->
                            StatuslineSession(t.instances[i], c, clock, failed)]
              dirty == \E i \in DOMAIN probed :
                          \/ probed[i].last_waiting_at # t.instances[i].last_waiting_at
                          \/ probed[i].last_running_at # t.instances[i].last_running_at
          IN  /\ txn' = [txn EXCEPT !["statusline"].pc = "done"]
              /\ IF outcome # "spawn_err" /\ dirty
                 THEN disk' = [instances |-> probed, tree |-> t.tree]
                 ELSE UNCHANGED disk
    /\ UNCHANGED <<otherThanCmd, view, detVars, bindVars, navVars, committed>>

\* App::new's load
SharedTuiLoad ==
    /\ txn["tui"].pc = "idle"
    /\ txn' = [txn EXCEPT !["tui"] = [pc |-> "loaded", cmd |-> "tui",
                                      instances |-> disk.instances,
                                      tree |-> disk.tree]]
    /\ UNCHANGED <<otherThanCmd, view, detVars, bindVars, navVars, disk, committed>>

\* App::toggle_selected_group on the group selected: the flag is flipped and
\* App::sessions and App::groups are saved
ToggleSelectedGroup ==
    /\ txn["tui"].pc = "loaded"
    /\ LET t == txn["tui"]
           next == ~t.tree[SharedGroup].expanded
           toggled == set_expanded(t.tree, SharedGroup, next)
       IN  /\ txn' = [txn EXCEPT !["tui"] = [t EXCEPT !.pc = "done", !.tree = toggled]]
           /\ disk' = [instances |-> t.instances, tree |-> toggled]
    /\ UNCHANGED <<otherThanCmd, view, detVars, bindVars, navVars, committed>>

InitShared ==
    /\ StoreOff
    /\ LockOff
    /\ PrioOff
    /\ UiOff
    /\ ViewOff
    /\ DetOff
    /\ BindOff
    /\ NavOff
    /\ clock = StartTime
    /\ panes \in [{SharedOld, SharedNew} ->
                     [alive : BOOLEAN, activity : {StartTime - 1},
                      screen : {{}, {"continue?"}}]]
    /\ \E st \in {"idle", "waiting", "running"} : \E n \in 0..1 :
          disk = [instances |-> [k \in 1..n |->
                                    Instance(SharedOld, <<>>, st, 1, None, None, 0)],
                  tree |-> from_groups(<<GroupData(SharedGroup, TRUE, 0)>>)]
    /\ txn = [p \in SharedProcs |-> TxnIdle]
    /\ committed = [added |-> {}, removed |-> {}]

NextShared ==
    \/ CliLoad
    \/ CliSave
    \/ SharedStatuslineLoad
    \/ SharedStatuslineSave
    \/ SharedTuiLoad
    \/ ToggleSelectedGroup

SpecShared == InitShared /\ [][NextShared]_vars

(***************************************************************************)
(* Part XV.  The lists the consumers draw: App::rebuild_tree and the       *)
(* switcher's build_tree.  An item is a group or the position of a session *)
(* in the loaded catalog; the order of the sessions of one group (by title *)
(* in the TUI, by last access in the switcher) is left as the catalog's.   *)
(***************************************************************************)
\* GroupTree::is_expanded
is_expanded(tree, path) == IF path \in DOMAIN tree THEN tree[path].expanded ELSE TRUE

\* GroupTree::children
children(tree, path) ==
    {p \in DOMAIN tree : Len(p) = Len(path) + 1 /\ IsUnder(p, path)}

\* `roots`: the groups whose path has no "/"
roots(tree) == {p \in DOMAIN tree : Len(p) = 1}

\* `sort()` of a set of paths
SortedPaths(S) ==
    CHOOSE o \in Orders(S) : \A i, j \in DOMAIN o : i < j => PathLess(o[i], o[j])

\* the positions of the sessions whose group_path is `path`, as items
SessionItems(insts, path, k) ==
    LET RECURSIVE from(_)
        from(i) ==
            IF i > Len(insts) THEN <<>>
            ELSE (IF insts[i].group_path = path
                  THEN <<[kind |-> "session", idx |-> i]>> ELSE <<>>) \o from(i + 1)
    IN  from(k)

\* `visit` over the paths of `todo` in turn; `gated` is whether a folded
\* group hides what is under it (the TUI) or not (the switcher)
RECURSIVE visit(_, _, _, _)
visit(tree, insts, todo, gated) ==
    IF todo = <<>> THEN <<>>
    ELSE LET path == Head(todo)
             below == IF gated /\ ~is_expanded(tree, path) THEN <<>>
                      ELSE visit(tree, insts, SortedPaths(children(tree, path)), gated)
                               \o SessionItems(insts, path, 1)
         IN  <<[kind |-> "group", path |-> path]>> \o below
                 \o visit(tree, insts, Tail(todo), gated)

\* App::rebuild_tree: the ungrouped sessions, then the root groups
rebuild_tree(insts, tree) ==
    SessionItems(insts, <<>>, 1) \o visit(tree, insts, SortedPaths(roots(tree)), TRUE)

\* run_switcher's build_tree: the root groups, then the ungrouped sessions
build_tree(tree, insts) ==
    visit(tree, insts, SortedPaths(roots(tree)), FALSE) \o SessionItems(insts, <<>>, 1)

\* every group expanded
ExpandAll(tree) == [p \in DOMAIN tree |-> [tree[p] EXCEPT !.expanded = TRUE]]

\* how often the session at position i is among the items
Shown(items, i) ==
    Cardinality({k \in DOMAIN items : items[k] = [kind |-> "session", idx |-> i]})

(***************************************************************************)
(* Claims about the Store.                                                 *)
(***************************************************************************)
Killed(p) == pc[p] = "idle" /\ res[p] \in {"killed_write", "killed_backup"}

SaveDone(p) == pc[p] = "idle" /\ res[p] = "ok"

File(n) == FileOf(dir, inode, n)

WholeDocument(f) == f.exists /\ ParseOk(f.data)

\* C2: whatever the interleaving of the steps of two saves, every load returns
\* a complete catalog: the one of one of the saves or the one there was before.
C2_LoadSeesOneWholeSave ==
    loaded.kind # "none" =>
        /\ loaded.kind = "ok"
        /\ loaded.cat \in {EmptyCatalog} \cup {Parse(Serialize(c)) : c \in Pool(mode)}

\* C3: no save fails because the other process's rotation made a backup file
\* disappear under it.
C3_BackupRaceNotFatal == \A p \in Procs : res[p] # "err_backup"

\* C4 as stated: a save killed anywhere before its rename leaves the previous
\* catalog loadable and .bak a complete catalog (here: on a profile that had
\* both sessions.json and .bak when the save began).
C4_KilledSaveKeepsBak ==
    \A p \in Procs :
        Killed(p) /\ pre[p][JSON].exists /\ WholeDocument(pre[p][1]) =>
            /\ LoadResult(dir, inode) = LoadOfFile(pre[p][JSON])
            /\ WholeDocument(File(1))

\* C4 amended: with a single writer, a save killed anywhere before its rename
\* leaves load() returning the catalog as it was before the save; .bak is a
\* complete copy of that catalog when the kill comes after the backup step
\* (from the creation of .tmp on) and sessions.json existed before the save.
C4_KilledSaveKeepsCatalog ==
    \A p \in Procs :
        Killed(p) =>
            /\ LoadResult(dir, inode) = LoadOfFile(pre[p][JSON])
            /\ LoadResult(dir, inode).kind = "ok"
            /\ (res[p] = "killed_write" /\ pre[p][JSON].exists) =>
                   /\ File(1) = pre[p][JSON]
                   /\ WholeDocument(File(1))

\* witness: a save of a profile that had a catalog is killed with .tmp left
\* truncated, and the load that follows returned the previous catalog.
C4_Witness ==
    /\ res[1] = "killed_write" /\ pc[1] = "idle"
    /\ pre[1][JSON].exists
    /\ dir[TMP] # 0 /\ Len(inode[dir[TMP]]) < DocChunks
    /\ loaded = LoadOfFile(pre[1][JSON])
    /\ loaded.cat # arg[1]
    /\ File(1) = pre[1][JSON]

\* The fields of a session the data model lists, status apart.
SessionFields == SerializedFields \ {"status"}

SameSessions(a, b) ==
    /\ Len(a) = Len(b)
    /\ \A k \in 1..Len(a) : \A f \in SessionFields : a[k][f] = b[k][f]

\* C5: save(c) then load(), no writer in between, returns the sessions of c
\* equal in every field but status, and the groups of c.
C5_SaveLoadRoundTrip ==
    SaveDone(1) =>
        /\ LoadResult(dir, inode).kind = "ok"
        /\ SameSessions(LoadResult(dir, inode).cat.instances, arg[1].instances)
        /\ LoadResult(dir, inode).cat.tree = arg[1].tree

\* witness: a catalog of two sessions (one with runtime-only state) and two
\* groups of the same name has been saved and loaded back.
C5_Witness ==
    /\ SaveDone(1)
    /\ Len(arg[1].instances) = 2
    /\ arg[1].instances[1].ptmx_count # 0
    /\ {<<1>>, <<2, 1>>} \subseteq DOMAIN arg[1].tree
    /\ loaded.kind = "ok"
    /\ loaded.cat.tree = arg[1].tree
    /\ loaded.cat.instances # arg[1].instances

LoadStepOf(p) == pc[p] = "idle" /\ saves'[p] = saves[p] - 1

\* C25: load() on a catalog file that is not valid JSON returns an error, the
\* command ends there without a save and every file of the profile is left
\* as it was; load() on a missing file returns an empty catalog.
C25_MalformedIsErrorMissingIsEmpty ==
    [][\A p \in Procs :
          LoadStepOf(p) =>
              LET f == FileOf(dir, inode, JSON)
              IN  /\ (f.exists /\ ~ParseOk(f.data)) =>
                        /\ loaded'.kind = "err"
                        /\ res'[p] = "load_err"
                        /\ pc'[p] = "idle"
                        /\ Snapshot' = Snapshot
                  /\ ~f.exists =>
                        /\ loaded'.kind = "ok"
                        /\ loaded'.cat = EmptyCatalog]_vars

\* two commands failed on a file cut short, which is still as it was
C25_Witness ==
    /\ mode = "command"
    /\ \A p \in Procs : res[p] = "load_err" /\ saves[p] < MaxCommands
    /\ loaded.kind = "err"
    /\ FileOf(dir, inode, JSON) = [exists |-> TRUE, data |-> <<Serialize(CatB)[1]>>]

\* a command found no file and loaded the empty catalog
C25_WitnessMissing ==
    /\ mode = "command"
    /\ loaded = [kind |-> "ok", cat |-> EmptyCatalog]
    /\ \E p \in Procs : pc[p] = "create_tmp" /\ pre[p][JSON] = Absent

(***************************************************************************)
(* Claims about the status-line lock.                                      *)
(***************************************************************************)
\* C1: an invocation that took the lock on statusline.lock holds it until it
\* returns, every invocation that meets the held lock prints exactly "AH"
\* without a multiplexer call, a load or a save, and so at most one
\* invocation that took the lock is inside the load / refresh / probe / save
\* section at a time.
C1_StatuslineLockExcludes ==
    /\ \A p \in SlProcs : (slAcquired[p] /\ slPc[p] # "done") => lockHolder = p
    /\ \A p \in SlProcs :
          (slPc[p] = "done" /\ ~slAcquired[p] /\ slDid[p] = {}) => slOut[p] = "AH"
    /\ Cardinality({p \in SlProcs : slAcquired[p] /\ slPc[p] \in Section}) <= 1

\* C12: `statusline` prints "AH" and returns success in every degraded case
\* (catalog unreadable or malformed, cache-refresh failure, save failure, lock
\* held): no invocation ends by returning an error to its caller.
C12_StatuslineNeverFails ==
    \A p \in SlProcs : slPc[p] = "done" => slOut[p] # "err"

(***************************************************************************)
(* Claims about the priority logic.                                        *)
(***************************************************************************)
\* The sessions as the last `jump` saw them (the catalog and the multiplexer
\* do not change under SpecJump).
Seen == {ProbeAll(instances, mux)[i] : i \in DOMAIN instances}

\* the last `jump` got as far as choosing
Chose == jumpOut.kind \in {"switched", "switch_failed", "no_target"}

Aimed == jumpOut.kind \in {"switched", "switch_failed"}

WaitingOthers == {s \in Seen : s.status = "waiting" /\ session_name(s.id) # jumpOut.from}

ReadyNames ==
    {session_name(s.id) : s \in {x \in Seen : x.status = "idle" /\ is_ready(x)}}

WaitedAt(s) == IF s.last_waiting_at = None THEN s.created_at ELSE s.last_waiting_at

\* the k-th name of a set of names in string order
NthName(names, k) ==
    CHOOSE n \in names : Cardinality({m \in names : PathLess(m, n)}) = k - 1

\* the name after `from` in the rotation over `names`
NextName(names, from) ==
    LET later == {n \in names : PathLess(from, n)}
    IN  IF from \in names /\ later # {} THEN NthName(later, 1) ELSE NthName(names, 1)

\* C7: whenever a session other than the current one is Waiting, `jump`
\* targets a non-current Waiting session whose last_waiting_at (created_at
\* when unset) is the greatest among them, however many Ready sessions there
\* are, and a successful switch leaves the client on it.
C7_JumpPicksNewestWaiting ==
    (Chose /\ WaitingOthers # {}) =>
        /\ Aimed
        /\ \E s \in WaitingOthers :
              /\ jumpOut.target = session_name(s.id)
              /\ \A t \in WaitingOthers : WaitedAt(t) <= WaitedAt(s)
        /\ jumpOut.kind = "switched" => current = jumpOut.target

\* a `jump` chose a Waiting session stamped earlier than another session was
\* created, over two Ready sessions
C7_Witness ==
    /\ jumpOut.kind = "switched"
    /\ Cardinality(WaitingOthers) >= 2
    /\ Cardinality(ReadyNames) >= 1
    /\ \E s, t \in WaitingOthers :
          /\ jumpOut.target = session_name(s.id)
          /\ s.created_at < t.created_at
          /\ WaitedAt(t) < WaitedAt(s)

\* C8: with no Waiting session other than the current one and N >= 2 sessions
\* Idle and Ready, `jump` targets the session after the current one in the
\* order of the multiplexer names (the first when the current session is not
\* among them); and with no Waiting session at all, a client that began
\* outside the Ready sessions is taken through them in that order, one per
\* jump, all N of them in N jumps.
C8_ReadyRoundRobin ==
    LET N == Cardinality(ReadyNames)
    IN  /\ (Chose /\ WaitingOthers = {} /\ N >= 2) =>
              /\ Aimed
              /\ jumpOut.target = NextName(ReadyNames, jumpOut.from)
        /\ ((\A s \in Seen : s.status # "waiting") /\ N >= 2
               /\ jumpLog[1] \notin ReadyNames) =>
              \A k \in 2..Len(jumpLog) :
                  jumpLog[k] = NthName(ReadyNames, ((k - 2) % N) + 1)

\* three Ready sessions stored out of name order, visited in three jumps
C8_Witness ==
    /\ Cardinality(ReadyNames) = 3
    /\ \A s \in Seen : s.status # "waiting"
    /\ jumpLog[1] \notin ReadyNames
    /\ Len(jumpLog) = 4
    /\ {jumpLog[k] : k \in 2..4} = ReadyNames
    /\ PathLess(session_name(instances[2].id), session_name(instances[1].id))

\* C9: `jump` never targets the session the client is on, be the candidate
\* Waiting or Ready, and when the only Ready session is the current one and no
\* other session is Waiting it reports "no target".
C9_JumpNeverTargetsCurrent ==
    /\ Aimed => jumpOut.target # jumpOut.from
    /\ (Chose /\ WaitingOthers = {} /\ ReadyNames = {jumpOut.from}) =>
           jumpOut.kind = "no_target"

\* a client on the only Ready session, beside an Idle one that is not Ready,
\* no session Waiting: no target
C9_Witness ==
    /\ jumpOut.kind = "no_target"
    /\ ReadyNames = {jumpOut.from}
    /\ WaitingOthers = {}
    /\ \E s \in Seen : s.status = "idle" /\ ~is_ready(s)

\* C10: the name `statusline` publishes in AGENTHAND_PRIORITY_SESSION is the
\* target `jump` selects for the same catalog, multiplexer state and current
\* session, and it is empty exactly when `jump` has no target.
C10_PriorityIsJumpTarget ==
    (statusOut.kind = "line" /\ statusOut.from = current) =>
        LET t == JumpTarget(ProbeAll(instances, mux), current)
        IN  statusOut.priority = IF t = <<>> THEN <<>> ELSE tmux_name(t[1])

(***************************************************************************)
(* Claims about the counters.                                              *)
(***************************************************************************)
\* the sessions of the last successful `statusline`, as it classified them
LineSessions == DOMAIN observed

\* last_running_at is within the Ready window
Recent(s) == s.last_running_at # None /\ clock - s.last_running_at < ReadyTtlSecs

LineReady(i) == observed[i] = "idle" /\ Recent(instances[i])

LineIdle(i) == (observed[i] = "idle" /\ ~Recent(instances[i])) \/ observed[i] = "starting"

\* `statusline` counts every session in exactly one of five classes
StatuslinePartition ==
    statusOut.kind = "line" =>
        /\ statusOut.waiting = Cardinality({i \in LineSessions : observed[i] = "waiting"})
        /\ statusOut.ready = Cardinality({i \in LineSessions : LineReady(i)})
        /\ statusOut.running = Cardinality({i \in LineSessions : observed[i] = "running"})
        /\ statusOut.idle = Cardinality({i \in LineSessions : LineIdle(i)})
        /\ statusOut.error = Cardinality({i \in LineSessions : observed[i] = "error"})
        /\ statusOut.waiting + statusOut.ready + statusOut.running + statusOut.idle
               + statusOut.error = Len(instances)

StatusSeen == DOMAIN statusCmdOut.seen

StatusIs(i, st) == statusCmdOut.seen[i].status = st

\* C11 (as amended): `statusline` counts every session in exactly one of
\* Waiting, Ready, Running, Idle, Error, Ready being the Idle sessions whose
\* last_running_at is within the Ready window; `status` has no Ready counter
\* and counts every session in exactly one of Waiting, Running, Idle, Error,
\* a Ready session as Idle; in both the counters add up to the number of
\* sessions.
C11_CountersPartition ==
    /\ StatuslinePartition
    /\ statusCmdOut.kind = "counts" =>
        /\ statusCmdOut.waiting = Cardinality({i \in StatusSeen : StatusIs(i, "waiting")})
        /\ statusCmdOut.running = Cardinality({i \in StatusSeen : StatusIs(i, "running")})
        /\ statusCmdOut.idle =
              Cardinality({i \in StatusSeen : StatusIs(i, "idle") \/ StatusIs(i, "starting")})
        /\ statusCmdOut.error = Cardinality({i \in StatusSeen : StatusIs(i, "error")})
        /\ statusCmdOut.waiting + statusCmdOut.running + statusCmdOut.idle
               + statusCmdOut.error = statusCmdOut.total
        /\ statusCmdOut.total = Len(instances)

\* both commands have counted a catalog with a Ready, a Waiting and other sessions
C11_Witness ==
    /\ statusOut.kind = "line"
    /\ statusCmdOut.kind = "counts"
    /\ statusOut.ready = 1
    /\ statusOut.waiting = 1
    /\ statusCmdOut.idle = 1
    /\ statusCmdOut.waiting = 1
    /\ Len(instances) = 2

\* C11 (as stated): in `status` too, a session counted Idle is not Ready
C11_StatusIdleExcludesReady ==
    /\ StatuslinePartition
    /\ statusCmdOut.kind = "counts" =>
           statusCmdOut.idle =
               Cardinality({i \in StatusSeen :
                               \/ StatusIs(i, "idle") /\ ~Recent(statusCmdOut.seen[i])
                               \/ StatusIs(i, "starting")})

(***************************************************************************)
(* Claims about the state engine.                                          *)
(***************************************************************************)
\* the status the consumer shows for a session (None is "")
UiStatus(id) ==
    IF consumer = "tui" THEN sessions[IndexOf(sessions, id)].status
    ELSE IF status_by_id[id] = <<>> THEN "" ELSE status_by_id[id][1]

\* the consumer's last operation ran the probe loop
Ticked == uiOut.op \in {"new", "tick"}

\* C13: on any tick of the TUI or the switcher, a session whose multiplexer
\* session is absent from the valid cache refreshed on that tick has status
\* Error afterwards, and its three timers (last activity, last activity
\* change, last probe) are cleared.
C13_AbsentSessionIsError ==
    Ticked =>
        \A id \in uiOut.absent :
            /\ UiStatus(id) = "error"
            /\ last_tmux_activity[id] = <<>>
            /\ last_tmux_activity_change[id] = <<>>
            /\ last_status_probe[id] = <<>>

\* C14: a captured screen on which both a Busy rule and a Waiting rule match
\* (built-in or user-supplied) gives the status Running, never Waiting, in
\* the consumers that classify screens.
C14_BusyBeatsWaiting ==
    Ticked =>
        \A id \in DOMAIN uiOut.captured :
            (is_busy(uiOut.captured[id]) /\ has_prompt(uiOut.captured[id]))
                => UiStatus(id) = "running"

\* a step in which the TUI ran its status refresh
TuiTickStep ==
    /\ consumer = "tui"
    /\ uiOut'.op \in {"new", "tick"}
    /\ <<sessions, uiOut, engineVars>>' # <<sessions, uiOut, engineVars>>

\* C15: on every tick, a session's last_waiting_at is set to the tick time
\* exactly when its status goes from a non-Waiting state to Waiting, and is
\* left as it was on every other tick, Waiting -> Waiting included.
C15_WaitingStampedOnEntry ==
    [][TuiTickStep =>
         \A i \in DOMAIN sessions :
             IF sessions'[i].status = "waiting" /\ sessions[i].status # "waiting"
             THEN sessions'[i].last_waiting_at = clock
             ELSE sessions'[i].last_waiting_at = sessions[i].last_waiting_at]_vars

\* C16: whenever a tick observes a session Running and its last_running_at is
\* unset or at least 30 s old, last_running_at is set to the time of the tick;
\* otherwise it is not rewritten.
C16_RunningStampedOnTick ==
    [][TuiTickStep =>
         \A i \in DOMAIN sessions :
             LET lr == sessions[i].last_running_at
                 seenRunning ==
                     /\ sessions'[i].status = "running"
                     /\ last_tmux_activity_change'[sessions[i].id] = <<clock>>
             IN  IF seenRunning /\ (lr = None \/ clock - lr >= TouchSecs)
                 THEN sessions'[i].last_running_at = clock
                 ELSE sessions'[i].last_running_at = lr]_vars

(***************************************************************************)
(* Claims about the group tree.                                            *)
(***************************************************************************)
\* path a is path b or an ancestor of it
Above(a, b) == Len(a) <= Len(b) /\ \A k \in 1..Len(a) : a[k] = b[k]

\* neither path is the other or an ancestor of the other
Apart(a, b) == ~Above(a, b) /\ ~Above(b, a)

\* a step that renames with the arguments of the rename just before it
SecondRename ==
    /\ uiOut.op = "rename"
    /\ uiOut'.op = "rename"
    /\ uiOut'.n = uiOut.n + 1
    /\ uiOut'.arg = uiOut.arg
    /\ uiOut'.to = uiOut.to

\* C17 (as amended): renaming a group prefix old to new is idempotent when
\* neither of old and new is the other or an ancestor of the other: a second
\* rename with the same arguments leaves the groups (paths, names, expanded
\* flags, order) and every session's group_path as the first left them.
C17_RenameIdempotentApart ==
    [][(SecondRename /\ Apart(uiOut.arg, uiOut.to))
          => (groups' = groups /\ sessions' = sessions)]_vars

\* the same rename ran twice in a row, moving a collapsed group with a session
C17_Witness ==
    /\ uiOut.op = "rename"
    /\ uiOut.prev = <<"rename", uiOut.arg, uiOut.to>>
    /\ Apart(uiOut.arg, uiOut.to)
    /\ \E p \in DOMAIN groups : Above(uiOut.to, p) /\ ~groups[p].expanded
    /\ \E i \in DOMAIN sessions : Above(uiOut.to, sessions[i].group_path)
    /\ \A p \in DOMAIN groups : ~Above(uiOut.arg, p)

\* C17 (as stated): the rename is idempotent for every pair of group paths
C17_RenameIdempotent ==
    [][SecondRename => (groups' = groups /\ sessions' = sessions)]_vars

\* the path that corresponds to p when old is renamed to new
Corresponding(p, old, new) == new \o SubSeq(p, Len(old) + 1, Len(p))

\* a step that renames old to new
RenameStep == uiOut'.op = "rename" /\ uiOut'.n = uiOut.n + 1

\* what C18 says of a step that renames old to new
MovesSubtree(old, new) ==
    /\ \A p \in DOMAIN groups :
          Above(old, p) =>
              LET q == Corresponding(p, old, new)
              IN  /\ q \in DOMAIN groups'
                  /\ groups'[q].path = q
                  /\ groups'[q].expanded = groups[p].expanded
    /\ Len(sessions') = Len(sessions)
    /\ \A i \in DOMAIN sessions :
          Above(old, sessions[i].group_path) =>
              sessions'[i].group_path = Corresponding(sessions[i].group_path, old, new)
    /\ \A p \in DOMAIN groups' : ~Above(old, p)

\* C18 (as amended): after renaming the group prefix old to new, neither
\* being the other or an ancestor of the other, every group that was at old
\* or under it exists at the corresponding path under new with its expanded
\* state carried over, every session whose group_path was old or under it has
\* the corresponding path under new, and no group at old or under it remains.
C18_RenameMovesSubtreeApart ==
    [][(RenameStep /\ Apart(uiOut'.arg, uiOut'.to))
          => MovesSubtree(uiOut'.arg, uiOut'.to)]_vars

\* a rename moved a group, a collapsed group under it and a session
C18_Witness ==
    /\ uiOut.op = "rename"
    /\ uiOut.n = 1
    /\ Apart(uiOut.arg, uiOut.to)
    /\ Cardinality(uiOut.hitGroups) >= 2
    /\ uiOut.hitSessions # {}
    /\ \E p \in DOMAIN groups :
          Above(uiOut.to, p) /\ Len(p) > Len(uiOut.to) /\ ~groups[p].expanded

\* C18 (as stated): the same for every pair of paths old and new
C18_RenameMovesSubtree ==
    [][RenameStep => MovesSubtree(uiOut'.arg, uiOut'.to)]_vars

\* C19: after create(path), path and every proper ancestor of it exist as
\* groups, whatever creates and deletes came before.
C19_CreateEnsuresAncestors ==
    uiOut.op = "create" =>
        \A k \in 1..Len(uiOut.arg) : SubSeq(uiOut.arg, 1, k) \in DOMAIN groups

\* C20: after delete_group_keep_sessions(p), every session that was in the
\* group p or in a group under it has an empty group_path, no session has
\* been removed, and no group equal to p or under it exists.
C20_DeleteKeepsSessions ==
    [][(uiOut'.op = "delete_keep" /\ uiOut'.n = uiOut.n + 1) =>
          /\ Len(sessions') = Len(sessions)
          /\ \A i \in DOMAIN sessions :
                /\ sessions'[i].id = sessions[i].id
                /\ Above(uiOut'.arg, sessions[i].group_path)
                      => sessions'[i].group_path = <<>>
          /\ \A p \in DOMAIN groups' : ~Above(uiOut'.arg, p)]_vars

\* a group with a subgroup and a session in the subgroup was deleted, the
\* session kept
C20_Witness ==
    /\ uiOut.op = "delete_keep"
    /\ Cardinality(uiOut.hitGroups) >= 2
    /\ uiOut.hitSessions # {}
    /\ \A i \in uiOut.hitSessions : sessions[i].group_path = <<>>
    /\ \A p \in DOMAIN groups : ~Above(uiOut.arg, p)

(***************************************************************************)
(* Claims about the catalog commands.                                      *)
(***************************************************************************)
\* every non-empty group_path of the sessions, and each non-empty prefix of
\* it, is a group of the tree
GroupsOfSessionsExist(insts, tree) ==
    \A i \in DOMAIN insts :
        \A k \in 1..Len(insts[i].group_path) :
            SubSeq(insts[i].group_path, 1, k) \in DOMAIN tree

\* C21: after the catalog is loaded, every non-empty group_path of a session
\* and each of its non-empty prefixes names a group of the loaded GroupTree,
\* whatever add, create-session, move, rename and group-delete operations
\* wrote the catalog.
C21_LoadedGroupsExist ==
    view.by # "none" => GroupsOfSessionsExist(view.sessions, view.groups)

\* a step that creates a session (add, the new-session dialog, a fork)
CreatesSession ==
    /\ uiOut'.op \in {"add", "new", "fork"}
    /\ uiOut'.n = uiOut.n + 1
    /\ Len(sessions') = Len(sessions) + 1

\* C22: every newly created session gets an id, and so a multiplexer session
\* name, different from that of every session of the profile.
C22_NewIdIsFresh ==
    [][CreatesSession =>
          \A i \in DOMAIN sessions :
              session_name(sessions[i].id) # session_name(sessions'[Len(sessions')].id)]_vars

\* a step of `add`
AddStep == uiOut'.op \in {"add", "add_dup", "add_err"} /\ uiOut'.n = uiOut.n + 1

\* C23: `add` with a project path that a session of the profile already has
\* leaves the catalog (sessions and groups) as it is, each time it is run.
C23_AddDuplicateChangesNothing ==
    [][(AddStep /\ \E i \in DOMAIN sessions : sessions[i].project_path = uiOut'.raw.dir)
          => (sessions' = sessions /\ groups' = groups)]_vars

\* `add` ran twice on the directory of a session, the second time with a
\* path that is not the canonical one
C23_Witness ==
    /\ uiOut.op = "add_dup"
    /\ uiOut.prev[1] = "add_dup"
    /\ ~uiOut.raw.canonical
    /\ \E i \in DOMAIN sessions : sessions[i].project_path = uiOut.raw.dir

\* C24: `remove` deletes the matching session from the catalog and, when its
\* multiplexer session exists at that time, kills it: after a successful
\* `remove` no multiplexer session of the removed session is left.
C24_RemoveKillsSession ==
    uiOut.op = "remove" =>
        /\ \A i \in DOMAIN sessions : sessions[i].id # uiOut.removed
        /\ ~panes[uiOut.removed].alive

(***************************************************************************)
(* Claims about the detector.                                              *)
(***************************************************************************)
\* C26: classifying a captured text and classifying the text without its
\* ANSI escapes give the same is_busy and the same has_prompt.
C26_ClassifyIgnoresAnsi ==
    verdict # <<>> => verdict.of_text = verdict.of_stripped

\* a step in which a consumer ran its probe loop
ProbeLoopStep ==
    /\ uiOut'.op \in {"new", "tick"}
    /\ <<sessions, uiOut, engineVars>>' # <<sessions, uiOut, engineVars>>

\* the status the spec's table gives a probed screen
ProbeSays(screen) ==
    IF is_busy(screen) /\ ~has_prompt(screen) THEN {"running"}
    ELSE IF has_prompt(screen) /\ ~is_busy(screen) THEN {"waiting"}
    ELSE IF ~is_busy(screen) /\ ~has_prompt(screen) THEN {"idle"}
    ELSE {"running", "waiting"}

\* C27: on a tick where a session's activity is unchanged and its screen is
\* captured, the session's status afterwards is Running for a Busy screen,
\* Waiting for a Waiting screen and Idle for a screen that is neither (a
\* screen that is both is left to C14).
C27_ProbeDecidesStatus ==
    [][ProbeLoopStep =>
         \A id \in DOMAIN uiOut'.captured :
             (last_tmux_activity[id] # <<>>
                 /\ last_tmux_activity'[id] = last_tmux_activity[id])
                 => UiStatus(id)' \in ProbeSays(uiOut'.captured[id])]_vars

(***************************************************************************)
(* Claims about the manager's cache.                                       *)
(***************************************************************************)
\* the last operation asked the cache about a name
Asked == uiOut.op \in {"exists", "activity"}

\* the cache the last operation worked on had been refreshed less than
\* CACHE_TTL before
WasFresh == uiOut.last_update # None /\ uiOut.at - uiOut.last_update < CACHE_TTL

\* C28: exists and activity answer None when the last successful refresh of
\* the cache is more than 2 s old, when there has been none, and when the
\* last refresh failed and cleared the cache.
C28_StaleCacheAnswersNone ==
    (Asked /\ (uiOut.last_update = None \/ uiOut.at - uiOut.last_update > CACHE_TTL))
        => uiOut.answer = <<>>

\* an old snapshot that holds the name was asked about it
C28_Witness ==
    /\ Asked
    /\ uiOut.last_update # None
    /\ uiOut.at - uiOut.last_update > CACHE_TTL
    /\ uiOut.name \in uiOut.held
    /\ uiOut.answer = <<>>

\* the last operation was a create_session that returned Ok
Created == uiOut.op \in {"create", "create_dup"}

\* C29 (as amended): right after create_session returns Ok, the duplicate
\* case included, session_exists reports the session present if the cache
\* was refreshed less than 2 s before, and None otherwise.
C29_CreateRegistersInFreshCache ==
    Created => uiOut.answer = IF WasFresh THEN <<TRUE>> ELSE <<>>

\* a session the fresh cache did not hold is reported present after create
C29_Witness ==
    /\ Created
    /\ WasFresh
    /\ uiOut.name \notin uiOut.held
    /\ uiOut.answer = <<TRUE>>

\* C29 (as stated): right after create_session returns Ok, session_exists
\* reports the session present whatever the cache was before.
C29_CreateRegistersAlways ==
    Created => uiOut.answer = <<TRUE>>

(***************************************************************************)
(* Claims about the key bindings.                                          *)
(***************************************************************************)
\* every process has left ensure_server_bindings
InstallersDone == \A p \in Installers : installer[p].pc = "done"

\* C30: when several processes run ensure_server_bindings with the same
\* configured keys, in every interleaving the end state has each of detach,
\* switcher and jump bound to its configured key with the matching
\* AGENTHAND_*_KEY record, and a process that read a record equal to its
\* configured key issued no bind and no unbind for that action.
C30_InstallersConverge ==
    /\ InstallersDone =>
          \A a \in BindActions :
              /\ bindings[Configured[a]] = a
              /\ records[RecordName[a]] = <<Configured[a]>>
    /\ \A p \in Installers : \A a \in BindActions :
          (installer[p].pc # "read" /\ installer[p].current[a] = <<Configured[a]>>)
              => /\ <<"bind-key", a>> \notin installer[p].issued
                 /\ <<"unbind-key", a>> \notin installer[p].issued

(***************************************************************************)
(* Claims about ticks without a user action.                               *)
(***************************************************************************)
\* the fields a tick may write
TickFields == {"status", "last_running_at", "last_waiting_at"}

\* the same sessions in the same order, equal in every other field
SameButTickFields(old, new) ==
    /\ Len(new) = Len(old)
    /\ \A i \in DOMAIN old :
          /\ DOMAIN new[i] = DOMAIN old[i]
          /\ \A f \in DOMAIN old[i] \ TickFields : new[i][f] = old[i][f]

ActivityAdvanced(id) ==
    /\ last_tmux_activity[id] # <<>>
    /\ last_tmux_activity'[id] # <<>>
    /\ last_tmux_activity'[id][1] > last_tmux_activity[id][1]

\* C32: on a tick where the multiplexer reports an activity greater than the
\* one recorded at the previous tick, the session becomes Running and its
\* pane is not captured on that tick.
C32_ActivityMeansRunningUnprobed ==
    [][ProbeLoopStep =>
         \A id \in DOMAIN last_tmux_activity :
             ActivityAdvanced(id) =>
                 /\ UiStatus(id)' = "running"
                 /\ id \notin DOMAIN uiOut'.captured]_vars

\* the session's activity has stood still for STATUS_COOLDOWN at this tick
ActivityStable(id) ==
    /\ last_tmux_activity_change'[id] # <<>>
    /\ clock - last_tmux_activity_change'[id][1] >= STATUS_COOLDOWN

\* the probe before this tick, if any, is at least `age` old
LastProbeOlder(id, age) ==
    last_status_probe[id] = <<>> \/ clock - last_status_probe[id][1] >= age

\* C33: a pane is captured only on a tick where the session's activity has
\* been unchanged for STATUS_COOLDOWN and its previous probe is at least
\* STATUS_COOLDOWN old, or where the fallback is due; so two captures of a
\* session are never less than STATUS_COOLDOWN apart.
C33_ProbesAreSpaced ==
    [][ProbeLoopStep =>
         \A id \in DOMAIN uiOut'.captured :
             /\ \/ ActivityStable(id) /\ LastProbeOlder(id, STATUS_COOLDOWN)
                \/ LastProbeOlder(id, STATUS_FALLBACK)
             /\ LastProbeOlder(id, STATUS_COOLDOWN)]_vars

\* the application has ended (refresh_cache returned Err)
Quit == uiOut.op = "quit"

\* the session's pane was captured less than STATUS_FALLBACK ago
ProbedWithinFallback(id) ==
    /\ last_status_probe[id] # <<>>
    /\ clock - last_status_probe[id][1] < STATUS_FALLBACK

C35_LaterRunSeesActivity ==
    [][(observed # <<>> /\ observed' # observed) =>
         \A i \in DOMAIN observed' :
             (/\ observed[i].activity # <<>>
              /\ observed'[i].activity # <<>>
              /\ observed'[i].activity[1] > observed[i].activity[1]
              /\ ~observed'[i].prompt)
                 => observed'[i].status = "running"]_vars

(***************************************************************************)
(* Claims about the TUI under keys.                                        *)
(***************************************************************************)
\* this step ran the TUI's cache refresh and stamped it, after App::new's
CacheRefreshRan ==
    /\ last_cache_refresh' # last_cache_refresh
    /\ uiOut'.op # "new"

\* this step ran the status refresh loop, in a tick or in refresh_sessions
StatusLoopRan ==
    /\ uiOut'.op \in {"tick", "refresh"}
    /\ uiVars' # uiVars

\* C36: over every sequence of ticks and user actions, the TUI's cache
\* refresh runs only when CACHE_REFRESH has passed since the one before, and
\* the status refresh loop runs only when STATUS_REFRESH has passed since
\* the one before.
C36_RefreshesAreRateLimited ==
    [][/\ CacheRefreshRan => clock - last_cache_refresh >= CACHE_REFRESH
       /\ StatusLoopRan => clock - last_status_refresh >= STATUS_REFRESH]_vars

\* C37: after a navigation key, no cache refresh, no status refresh and no
\* pane probe runs until NAVIGATION_SETTLE has passed since the most recent
\* navigation key.
C37_NavigationHoldsRefreshes ==
    [][(CacheRefreshRan \/ StatusLoopRan \/ uiOut'.captured # <<>>)
          => ~(is_navigating /\ clock - last_navigation_time < NAVIGATION_SETTLE)]_vars

(***************************************************************************)
(* Claims about processes sharing the catalog.                             *)
(***************************************************************************)
AllDone == txn # <<>> /\ \A p \in DOMAIN txn : txn[p].pc = "done"

\* C38: no lost update across processes: once every process has finished,
\* each session whose addition a command saved is in the catalog and each
\* session whose removal a command saved is not, whatever another process
\* did between its own load and save.
C38_NoLostUpdate ==
    AllDone =>
        /\ committed.added \subseteq Ids(disk.instances)
        /\ committed.removed \cap Ids(disk.instances) = {}

(***************************************************************************)
(* Claims about the lists of the consumers.                                *)
(***************************************************************************)
\* C39: with every group expanded and no search filter, every session of a
\* catalog reached through add, create-session, move and the group
\* operations appears exactly once in the TUI's tree and exactly once in the
\* switcher's list.
C39_EverySessionListedOnce ==
    /\ view.by = "tui" =>
          \A i \in DOMAIN view.sessions :
             Shown(rebuild_tree(view.sessions, ExpandAll(view.groups)), i) = 1
    /\ view.by = "switcher" =>
          \A i \in DOMAIN view.sessions :
             Shown(build_tree(ExpandAll(view.groups), view.sessions), i) = 1

\* C40: one `remove <ident>` deletes at most one session: when the
\* identifier matches several sessions, every session other than the one
\* resolved for removal stays in the catalog.
C40_RemoveDropsOneSession ==
    uiOut.op = "remove" => uiOut.dropped \subseteq {uiOut.removed}

====
